---- MODULE Spec2Model ----
(***************************************************************************)
(* Tenant resolution, credential minting and sync dispatch of the GetInv   *)
(* Shopify app: the /api/sync route (loader and action), the app index     *)
(* loader, the validation utilities they import, and the backing store     *)
(* and job functions they talk to.                                         *)
(*                                                                         *)
(* JavaScript strings that the code inspects character by character        *)
(* (trim, toLowerCase, regular expressions, String.includes) are sequences *)
(* of one-character strings.  Fixed message literals that the code only    *)
(* passes around are TLA+ strings.                                         *)
(***************************************************************************)
EXTENDS Integers, Sequences, FiniteSets, TLC

----------------------------------------------------------------------------
(* Characters and string primitives                                        *)

LowerSeq ==
    <<"a", "b", "c", "d", "e", "f", "g", "h", "i", "j", "k", "l", "m",
      "n", "o", "p", "q", "r", "s", "t", "u", "v", "w", "x", "y", "z">>

UpperSeq ==
    <<"A", "B", "C", "D", "E", "F", "G", "H", "I", "J", "K", "L", "M",
      "N", "O", "P", "Q", "R", "S", "T", "U", "V", "W", "X", "Y", "Z">>

Digits == {"0", "1", "2", "3", "4", "5", "6", "7", "8", "9"}

Letters == {LowerSeq[i] : i \in 1..Len(LowerSeq)} \cup {UpperSeq[i] : i \in 1..Len(UpperSeq)}

Whitespace == {" "}

IsAlnum(c) == c \in Letters \cup Digits

\* String.prototype.toLowerCase
LowerChar(c) ==
    IF \E i \in 1..Len(UpperSeq) : UpperSeq[i] = c
    THEN LowerSeq[CHOOSE i \in 1..Len(UpperSeq) : UpperSeq[i] = c]
    ELSE c

toLowerCase(s) == [i \in 1..Len(s) |-> LowerChar(s[i])]

\* String.prototype.trim
RECURSIVE TrimLeft(_)
TrimLeft(s) ==
    IF s # <<>> /\ Head(s) \in Whitespace THEN TrimLeft(Tail(s)) ELSE s

RECURSIVE TrimRight(_)
TrimRight(s) ==
    IF s # <<>> /\ s[Len(s)] \in Whitespace
    THEN TrimRight(SubSeq(s, 1, Len(s) - 1))
    ELSE s

trim(s) == TrimRight(TrimLeft(s))

\* String.prototype.includes
includes(s, sub) ==
    \E i \in 1..(Len(s) - Len(sub) + 1) : SubSeq(s, i, i + Len(sub) - 1) = sub

----------------------------------------------------------------------------
(* JavaScript values of type unknown, as the validators receive them.      *)
(* t is the typeof tag; s the string value; n.f the number value (f is the *)
(* first decimal digit, so 1.5 is n = 1, f = 5); b the boolean value.      *)

JsUndefined == [t |-> "undefined", s |-> <<>>, n |-> 0, f |-> 0, b |-> FALSE]
JsNull      == [t |-> "null",      s |-> <<>>, n |-> 0, f |-> 0, b |-> FALSE]
JsString(x) == [t |-> "string",    s |-> x,    n |-> 0, f |-> 0, b |-> FALSE]
JsNumber(x, d) == [t |-> "number", s |-> <<>>, n |-> x, f |-> d, b |-> FALSE]
JsBool(x)   == [t |-> "boolean",   s |-> <<>>, n |-> 0, f |-> 0, b |-> x]

\* Boolean(v): falsy values are undefined, null, false, 0, NaN and ""
Boolean(v) ==
    CASE v.t = "undefined" -> FALSE
      [] v.t = "null"      -> FALSE
      [] v.t = "boolean"   -> v.b
      [] v.t = "number"    -> ~(v.n = 0 /\ v.f = 0)
      [] v.t = "string"    -> v.s # <<>>

DigitSeq == <<"0", "1", "2", "3", "4", "5", "6", "7", "8", "9">>

\* Number.prototype.toString of a non-negative whole number
RECURSIVE NatToString(_)
NatToString(n) ==
    IF n < 10 THEN <<DigitSeq[n + 1]>>
    ELSE NatToString(n \div 10) \o <<DigitSeq[(n % 10) + 1]>>

\* String(v)
String(v) ==
    CASE v.t = "string"    -> v.s
      [] v.t = "number"    -> NatToString(v.n)
                              \o (IF v.f = 0 THEN <<>> ELSE <<".", DigitSeq[v.f + 1]>>)
      [] v.t = "boolean"   -> (IF v.b THEN <<"t", "r", "u", "e">> ELSE <<"f", "a", "l", "s", "e">>)
      [] v.t = "undefined" -> <<"u", "n", "d", "e", "f", "i", "n", "e", "d">>
      [] v.t = "null"      -> <<"n", "u", "l", "l">>

\* The result of a validator: a returned value or a thrown Error(msg)
Returned(x) == [ok |-> TRUE, v |-> x, msg |-> <<>>]
Thrown(m, zero) == [ok |-> FALSE, v |-> zero, msg |-> m]

----------------------------------------------------------------------------
(* utils/validation.server                                                 *)

MAX_ID_LENGTH == 255

MIN_INTERVAL == 1

MAX_INTERVAL == 1440

DEFAULT_INTERVAL == 15

MYSHOPIFY_SUFFIX ==
    <<".", "m", "y", "s", "h", "o", "p", "i", "f", "y", ".", "c", "o", "m">>

\* /^[a-zA-Z0-9][a-zA-Z0-9\-]*[a-zA-Z0-9]\.myshopify\.com$/ .test(s)
SHOP_DOMAIN_PATTERN(s) ==
    LET k == Len(s) - Len(MYSHOPIFY_SUFFIX) IN
    /\ k >= 2
    /\ SubSeq(s, k + 1, Len(s)) = MYSHOPIFY_SUFFIX
    /\ IsAlnum(s[1])
    /\ IsAlnum(s[k])
    /\ \A i \in 2..(k - 1) : IsAlnum(s[i]) \/ s[i] = "-"

VALID_INTENTS ==
    {<<"p", "u", "l", "l">>,
     <<"p", "u", "s", "h", "_", "c", "h", "a", "n", "g", "e", "d">>,
     <<"p", "u", "s", "h", "_", "a", "l", "l">>,
     <<"t", "o", "g", "g", "l", "e", "_", "a", "u", "t", "o">>}

\* The messages of the Errors the validators throw
\* "Shop domain must be a string"
E_SHOP_NOT_STRING ==
    <<"S", "h", "o", "p", " ", "d", "o", "m", "a", "i", "n", " ", "m", "u", "s",
      "t", " ", "b", "e", " ", "a", " ", "s", "t", "r", "i", "n", "g">>

\* "Shop domain cannot be empty"
E_SHOP_EMPTY ==
    <<"S", "h", "o", "p", " ", "d", "o", "m", "a", "i", "n", " ", "c", "a", "n",
      "n", "o", "t", " ", "b", "e", " ", "e", "m", "p", "t", "y">>

\* "Shop domain is too long"
E_SHOP_TOO_LONG ==
    <<"S", "h", "o", "p", " ", "d", "o", "m", "a", "i", "n", " ", "i", "s", " ",
      "t", "o", "o", " ", "l", "o", "n", "g">>

\* "Invalid shop domain format. Must be in format: store.myshopify.com"
E_SHOP_FORMAT ==
    <<"I", "n", "v", "a", "l", "i", "d", " ", "s", "h", "o", "p", " ", "d", "o",
      "m", "a", "i", "n", " ", "f", "o", "r", "m", "a", "t", ".", " ", "M", "u",
      "s", "t", " ", "b", "e", " ", "i", "n", " ", "f", "o", "r", "m", "a", "t",
      ":", " ", "s", "t", "o", "r", "e", ".", "m", "y", "s", "h", "o", "p", "i",
      "f", "y", ".", "c", "o", "m">>

\* "Intent must be a string"
E_INTENT_NOT_STRING ==
    <<"I", "n", "t", "e", "n", "t", " ", "m", "u", "s", "t", " ", "b", "e", " ",
      "a", " ", "s", "t", "r", "i", "n", "g">>

\* "Invalid intent. Must be one of: pull, push_changed, push_all, toggle_auto"
E_INTENT_INVALID ==
    <<"I", "n", "v", "a", "l", "i", "d", " ", "i", "n", "t", "e", "n", "t", ".",
      " ", "M", "u", "s", "t", " ", "b", "e", " ", "o", "n", "e", " ", "o", "f",
      ":", " ", "p", "u", "l", "l", ",", " ", "p", "u", "s", "h", "_", "c", "h",
      "a", "n", "g", "e", "d", ",", " ", "p", "u", "s", "h", "_", "a", "l", "l",
      ",", " ", "t", "o", "g", "g", "l", "e", "_", "a", "u", "t", "o">>

\* "Interval minutes must be a number"
E_INTERVAL_NOT_NUMBER ==
    <<"I", "n", "t", "e", "r", "v", "a", "l", " ", "m", "i", "n", "u", "t", "e",
      "s", " ", "m", "u", "s", "t", " ", "b", "e", " ", "a", " ", "n", "u", "m",
      "b", "e", "r">>

\* "Interval minutes must be an integer"
E_INTERVAL_NOT_INTEGER ==
    <<"I", "n", "t", "e", "r", "v", "a", "l", " ", "m", "i", "n", "u", "t", "e",
      "s", " ", "m", "u", "s", "t", " ", "b", "e", " ", "a", "n", " ", "i", "n",
      "t", "e", "g", "e", "r">>

\* "Interval minutes must be at least 1"
E_INTERVAL_TOO_SMALL ==
    <<"I", "n", "t", "e", "r", "v", "a", "l", " ", "m", "i", "n", "u", "t", "e",
      "s", " ", "m", "u", "s", "t", " ", "b", "e", " ", "a", "t", " ", "l", "e",
      "a", "s", "t", " ", "1">>

\* "Interval minutes cannot exceed 1440 (24 hours)"
E_INTERVAL_TOO_LARGE ==
    <<"I", "n", "t", "e", "r", "v", "a", "l", " ", "m", "i", "n", "u", "t", "e",
      "s", " ", "c", "a", "n", "n", "o", "t", " ", "e", "x", "c", "e", "e", "d",
      " ", "1", "4", "4", "0", " ", "(", "2", "4", " ", "h", "o", "u", "r", "s",
      ")">>

\* "Admin ID must be a string"
E_ADMIN_NOT_STRING ==
    <<"A", "d", "m", "i", "n", " ", "I", "D", " ", "m", "u", "s", "t", " ", "b",
      "e", " ", "a", " ", "s", "t", "r", "i", "n", "g">>

\* "Admin ID cannot be empty"
E_ADMIN_EMPTY ==
    <<"A", "d", "m", "i", "n", " ", "I", "D", " ", "c", "a", "n", "n", "o", "t",
      " ", "b", "e", " ", "e", "m", "p", "t", "y">>

\* "Admin ID is too long"
E_ADMIN_TOO_LONG ==
    <<"A", "d", "m", "i", "n", " ", "I", "D", " ", "i", "s", " ", "t", "o", "o",
      " ", "l", "o", "n", "g">>

\* "Admin ID contains invalid characters"
E_ADMIN_CHARS ==
    <<"A", "d", "m", "i", "n", " ", "I", "D", " ", "c", "o", "n", "t", "a", "i",
      "n", "s", " ", "i", "n", "v", "a", "l", "i", "d", " ", "c", "h", "a", "r",
      "a", "c", "t", "e", "r", "s">>

validateShopDomain(shopDomain) ==
    IF shopDomain.t # "string" THEN Thrown(E_SHOP_NOT_STRING, <<>>)
    ELSE LET trimmed == toLowerCase(trim(shopDomain.s)) IN
         IF trimmed = <<>> THEN Thrown(E_SHOP_EMPTY, <<>>)
         ELSE IF Len(trimmed) > MAX_ID_LENGTH THEN Thrown(E_SHOP_TOO_LONG, <<>>)
         ELSE IF ~SHOP_DOMAIN_PATTERN(trimmed)
              THEN Thrown(E_SHOP_FORMAT, <<>>)
         ELSE Returned(trimmed)

\* validateIntent without the membership test: every string is returned
IntentMutantAcceptsAnyString(intent) ==
    IF intent.t # "string" THEN Thrown(E_INTENT_NOT_STRING, <<>>)
    ELSE Returned(intent.s)

validateIntent(intent) ==
    IF intent.t # "string" THEN Thrown(E_INTENT_NOT_STRING, <<>>)
    ELSE IF intent.s \notin VALID_INTENTS
         THEN Thrown(E_INTENT_INVALID, <<>>)
    ELSE Returned(intent.s)

\* validateIntervalMinutes with the lower limit moved to zero
IntervalMutantAcceptsZero(intervalMinutes, defaultValue) ==
    IF intervalMinutes.t \in {"undefined", "null"} THEN Returned(defaultValue)
    ELSE IF intervalMinutes.t # "number" THEN Thrown(E_INTERVAL_NOT_NUMBER, 0)
    ELSE IF intervalMinutes.f # 0 THEN Thrown(E_INTERVAL_NOT_INTEGER, 0)
    ELSE IF intervalMinutes.n < 0 THEN Thrown(E_INTERVAL_TOO_SMALL, 0)
    ELSE IF intervalMinutes.n > MAX_INTERVAL
         THEN Thrown(E_INTERVAL_TOO_LARGE, 0)
    ELSE Returned(intervalMinutes.n)

\* validateIntervalMinutes without the upper limit
IntervalMutantNoUpperLimit(intervalMinutes, defaultValue) ==
    IF intervalMinutes.t \in {"undefined", "null"} THEN Returned(defaultValue)
    ELSE IF intervalMinutes.t # "number" THEN Thrown(E_INTERVAL_NOT_NUMBER, 0)
    ELSE IF intervalMinutes.f # 0 THEN Thrown(E_INTERVAL_NOT_INTEGER, 0)
    ELSE IF intervalMinutes.n < MIN_INTERVAL THEN Thrown(E_INTERVAL_TOO_SMALL, 0)
    ELSE Returned(intervalMinutes.n)

validateIntervalMinutes(intervalMinutes, defaultValue) ==
    IF intervalMinutes.t \in {"undefined", "null"} THEN Returned(defaultValue)
    ELSE IF intervalMinutes.t # "number" THEN Thrown(E_INTERVAL_NOT_NUMBER, 0)
    ELSE IF intervalMinutes.f # 0 THEN Thrown(E_INTERVAL_NOT_INTEGER, 0)
    ELSE IF intervalMinutes.n < MIN_INTERVAL THEN Thrown(E_INTERVAL_TOO_SMALL, 0)
    ELSE IF intervalMinutes.n > MAX_INTERVAL
         THEN Thrown(E_INTERVAL_TOO_LARGE, 0)
    ELSE Returned(intervalMinutes.n)

\* /^[a-zA-Z0-9\-_]+$/ .test(s)
ADMIN_ID_PATTERN(s) ==
    /\ Len(s) >= 1
    /\ \A i \in 1..Len(s) : IsAlnum(s[i]) \/ s[i] \in {"-", "_"}

validateAdminId(adminId) ==
    IF adminId.t # "string" THEN Thrown(E_ADMIN_NOT_STRING, <<>>)
    ELSE LET trimmed == trim(adminId.s) IN
         IF trimmed = <<>> THEN Thrown(E_ADMIN_EMPTY, <<>>)
         ELSE IF Len(trimmed) > MAX_ID_LENGTH THEN Thrown(E_ADMIN_TOO_LONG, <<>>)
         ELSE IF ~ADMIN_ID_PATTERN(trimmed) THEN Thrown(E_ADMIN_CHARS, <<>>)
         ELSE Returned(trimmed)

----------------------------------------------------------------------------
(* The backing store (Supabase/PostgREST) as the route code sees it        *)

\* A PostgREST error object: { code, message, details }
StoreError(c, m) == [code |-> c, message |-> m, details |-> ""]

ERR_SCHEMA_CODE ==
    StoreError("PGRST116", <<"n", "o", " ", "r", "o", "w", "s">>)

ERR_SCHEMA_MSG ==
    StoreError("PGRST106",
        <<"T", "h", "e", " ", "s", "c", "h", "e", "m", "a", " ", "m", "u", "s", "t", " ",
          "b", "e", " ", "p", "u", "b", "l", "i", "c">>)

ERR_JWT ==
    StoreError("PGRST301", <<"J", "W", "T", " ", "e", "x", "p", "i", "r", "e", "d">>)

ERR_PERMISSION ==
    StoreError("42501",
        <<"p", "e", "r", "m", "i", "s", "s", "i", "o", "n", " ", "d", "e", "n", "i", "e", "d">>)

\* Postgres 42P01: relation "shopify_shops" does not exist
ERR_RELATION ==
    StoreError("42P01",
        <<"r", "e", "l", "a", "t", "i", "o", "n", " ", "\"", "s", "h", "o", "p", "i", "f", "y",
          "_", "s", "h", "o", "p", "s", "\"", " ", "d", "o", "e", "s", " ", "n", "o", "t", " ",
          "e", "x", "i", "s", "t">>)

ERR_FETCH ==
    StoreError("",
        <<"T", "y", "p", "e", "E", "r", "r", "o", "r", ":", " ", "f", "e", "t", "c", "h", " ",
          "f", "a", "i", "l", "e", "d">>)

ERR_INTERNAL ==
    StoreError("XX000",
        <<"i", "n", "t", "e", "r", "n", "a", "l", " ", "e", "r", "r", "o", "r">>)

StoreErrors ==
    {ERR_SCHEMA_CODE, ERR_SCHEMA_MSG, ERR_JWT, ERR_PERMISSION, ERR_RELATION, ERR_FETCH,
     ERR_INTERNAL}

\* What one call to the store can do: answer, answer with an error object,
\* or reject the promise with an exception.
StoreOk == [kind |-> "ok", err |-> StoreError("", <<>>)]
NoOutcome == [kind |-> "none", err |-> StoreError("", <<>>)]
StoreFails(e) == [kind |-> "error", err |-> e]
StoreThrows(e) == [kind |-> "throw", err |-> e]

StoreOutcomes ==
    {StoreOk} \cup {StoreFails(e) : e \in StoreErrors} \cup {StoreThrows(ERR_FETCH)}

\* .eq(column, value).maybeSingle(): no row gives null data, one row gives
\* the row, several rows give PostgREST error PGRST116.
maybeSingle(rows) ==
    IF Cardinality(rows) > 1
    THEN [error |-> TRUE, err |-> ERR_SCHEMA_CODE, data |-> {}]
    ELSE [error |-> FALSE, err |-> StoreError("", <<>>), data |-> rows]

----------------------------------------------------------------------------
(* routes/api.sync: getAdminIdForShop                                      *)

\* A message the code builds: a fixed text followed by an interpolated string
Msg(text, arg) == [text |-> text, arg |-> arg]

\* ConnectionError.details: undefined, a text of the store (its details or
\* its code), or the stack of a caught exception
NoDetails == [kind |-> "undefined", text |-> ""]

NoError ==
    [present |-> FALSE, type |-> "", message |-> Msg("", <<>>), statusCode |-> 0,
     details |-> NoDetails]

ConnectionError(type, message, statusCode) ==
    [present |-> TRUE, type |-> type, message |-> message, statusCode |-> statusCode,
     details |-> NoDetails]

WithDetails(e, kind, text) == [e EXCEPT !.details = [kind |-> kind, text |-> text]]

STATUS_FORBIDDEN == 403

\* the if / else-if chain that determines the error type
classifyStoreError(errorCode, errorMessage) ==
    IF errorCode = "PGRST116" \/ includes(errorMessage, <<"s", "c", "h", "e", "m", "a">>)
       \/ includes(errorMessage, <<"d", "o", "e", "s", " ", "n", "o", "t", " ", "e", "x", "i", "s", "t">>)
    THEN ConnectionError("schema_not_exposed",
            Msg("Schema 'app_private' is not accessible. Add \"app_private\" to Supabase API -> Exposed schemas in your Supabase dashboard.", <<>>), 0)
    ELSE IF errorCode = "PGRST301"
            \/ includes(errorMessage, <<"p", "e", "r", "m", "i", "s", "s", "i", "o", "n">>)
            \/ includes(errorMessage, <<"4", "0", "3">>)
    THEN ConnectionError("permission_denied",
            Msg("Permission denied accessing app_private.shopify_shops. Check that your SUPABASE_SERVICE_ROLE_KEY has proper permissions.", <<>>),
            STATUS_FORBIDDEN)
    ELSE IF includes(errorMessage, <<"r", "e", "l", "a", "t", "i", "o", "n">>)
            /\ includes(errorMessage, <<"d", "o", "e", "s", " ", "n", "o", "t", " ", "e", "x", "i", "s", "t">>)
    THEN ConnectionError("table_not_found",
            Msg("Table 'app_private.shopify_shops' does not exist. Ensure the table is created in your Supabase database.", <<>>), 0)
    ELSE IF includes(errorMessage, <<"f", "e", "t", "c", "h">>)
            \/ includes(errorMessage, <<"n", "e", "t", "w", "o", "r", "k">>)
            \/ includes(errorMessage, <<"E", "C", "O", "N", "N", "R", "E", "F", "U", "S", "E", "D">>)
    THEN ConnectionError("network_error", Msg("Network error connecting to Supabase: ", errorMessage), 0)
    ELSE ConnectionError("unknown", Msg("", errorMessage), 0)

NullId == <<>>

\* The resolver's result { adminId, error? } with what it did on the way:
\* lookups counts the store queries issued, key is the value sent to .eq()
Resolved(id, e, n, k) == [adminId |-> id, error |-> e, lookups |-> n, key |-> k]

\* a lookup that finds no row reported as an error
RevalidateMutantNotFoundIsError(rows, key) ==
    IF rows # {} /\ (CHOOSE x \in rows : TRUE).admin_id # <<>>
    THEN LET v == validateAdminId(JsString((CHOOSE x \in rows : TRUE).admin_id)) IN
         IF v.ok THEN Resolved(v.v, NoError, 1, key)
         ELSE Resolved(NullId,
                 ConnectionError("unknown", Msg("Invalid admin ID format returned from database", <<>>), 0),
                 1, key)
    ELSE Resolved(NullId, ConnectionError("unknown", Msg("Shop not found", <<>>), 0), 1, key)

\* the "Validate admin ID if found" block

\* a malformed stored id returned together with the error
RevalidateMutantKeepsId(rows, key) ==
    IF rows # {} /\ (CHOOSE x \in rows : TRUE).admin_id # <<>>
    THEN LET v == validateAdminId(JsString((CHOOSE x \in rows : TRUE).admin_id)) IN
         IF v.ok THEN Resolved(v.v, NoError, 1, key)
         ELSE Resolved((CHOOSE x \in rows : TRUE).admin_id,
                 ConnectionError("unknown", Msg("Invalid admin ID format returned from database", <<>>), 0),
                 1, key)
    ELSE Resolved(NullId, NoError, 1, key)

\* a lookup that finds no row answered with the first tenant
RevalidateMutantDefaultTenant(rows, key) ==
    IF rows # {} /\ (CHOOSE x \in rows : TRUE).admin_id # <<>>
    THEN LET v == validateAdminId(JsString((CHOOSE x \in rows : TRUE).admin_id)) IN
         IF v.ok THEN Resolved(v.v, NoError, 1, key)
         ELSE Resolved(NullId,
                 ConnectionError("unknown", Msg("Invalid admin ID format returned from database", <<>>), 0),
                 1, key)
    ELSE Resolved(<<"t", "1">>, NoError, 1, key)

revalidateFound(rows, key) ==
    IF rows # {} /\ (CHOOSE x \in rows : TRUE).admin_id # <<>>
    THEN LET v == validateAdminId(JsString((CHOOSE x \in rows : TRUE).admin_id)) IN
         IF v.ok THEN Resolved(v.v, NoError, 1, key)
         ELSE Resolved(NullId,
                 ConnectionError("unknown", Msg("Invalid admin ID format returned from database", <<>>), 0),
                 1, key)
    ELSE Resolved(NullId, NoError, 1, key)

\* a shop identity of the wrong shape treated as a shop that is not linked
ResolveMutantShapeIsNotFound(shopDomain, table, outcome) ==
    LET valid == validateShopDomain(shopDomain) IN
    IF ~valid.ok
    THEN Resolved(NullId, NoError, 0, <<>>)
    ELSE LET key == shopDomain.s
             res == IF outcome.kind = "error"
                    THEN [error |-> TRUE, err |-> outcome.err, data |-> {}]
                    ELSE maybeSingle({x \in table : x.shop_domain = key})
         IN
         IF outcome.kind = "throw"
         THEN Resolved(NullId,
                 WithDetails(ConnectionError("unknown",
                                 Msg("Unexpected error: ", outcome.err.message), 0),
                             "stack", ""),
                 1, key)
         ELSE IF res.error
         THEN Resolved(NullId,
                 WithDetails(classifyStoreError(res.err.code, res.err.message), "text",
                             IF res.err.details # "" THEN res.err.details
                             ELSE res.err.code),
                 1, key)
         ELSE revalidateFound(res.data, key)

\* shopDomain: session.shop; table: app_private.shopify_shops; outcome: what
\* the store does with the query
getAdminIdForShop(shopDomain, table, outcome) ==
    LET valid == validateShopDomain(shopDomain) IN
    IF ~valid.ok
    THEN Resolved(NullId, ConnectionError("unknown", Msg("", valid.msg), 0), 0, <<>>)
    ELSE LET key == shopDomain.s
             res == IF outcome.kind = "error"
                    THEN [error |-> TRUE, err |-> outcome.err, data |-> {}]
                    ELSE maybeSingle({x \in table : x.shop_domain = key})
         IN
         IF outcome.kind = "throw"
         THEN Resolved(NullId,
                 WithDetails(ConnectionError("unknown",
                                 Msg("Unexpected error: ", outcome.err.message), 0),
                             "stack", ""),
                 1, key)
         ELSE IF res.error
         THEN Resolved(NullId,
                 WithDetails(classifyStoreError(res.err.code, res.err.message), "text",
                             IF res.err.details # "" THEN res.err.details
                             ELSE res.err.code),
                 1, key)
         ELSE revalidateFound(res.data, key)

----------------------------------------------------------------------------
(* sanitizeErrorMessage and the values the handlers catch                  *)

\* A caught value: an Error with a message, or some other thrown value
ErrorValue(m) == [isError |-> TRUE, message |-> m]

\* isProduction defaults to process.env.NODE_ENV === "production"
sanitizeErrorMessage(error, isProduction) ==
    IF isProduction
    THEN IF error.isError
         THEN IF includes(error.message, <<"m", "u", "s", "t", " ", "b", "e">>)
                 \/ includes(error.message, <<"c", "a", "n", "n", "o", "t">>)
                 \/ includes(error.message, <<"I", "n", "v", "a", "l", "i", "d">>)
              THEN Msg("", error.message)
              ELSE Msg("An error occurred processing your request. Please try again later.", <<>>)
         ELSE Msg("An unexpected error occurred. Please try again later.", <<>>)
    ELSE Msg("", error.message)

----------------------------------------------------------------------------
(* mintAppJwt and callEdgeFunction                                         *)

\* "5m" in seconds
TOKEN_LIFETIME == 300

NoToken == [userId |-> <<>>, role |-> "", alg |-> "", iat |-> 0, exp |-> 0, key |-> ""]

\* "Server misconfigured: APP_JWT_SECRET missing"
E_SECRET_MISSING ==
    <<"S", "e", "r", "v", "e", "r", " ", "m", "i", "s", "c", "o", "n", "f", "i",
          "g", "u", "r", "e", "d", ":", " ", "A", "P", "P", "_", "J", "W", "T", "_",
          "S", "E", "C", "R", "E", "T", " ", "m", "i", "s", "s", "i", "n", "g">>

\* mintAppJwt signing a fixed subject instead of its argument
MintMutantFixedSubject(adminId, secret, t) ==
    IF secret = ""
    THEN Thrown(E_SECRET_MISSING, NoToken)
    ELSE Returned([userId |-> <<"t", "1">>, role |-> "admin", alg |-> "HS256",
                   iat |-> t, exp |-> t + TOKEN_LIFETIME, key |-> secret])

\* mintAppJwt reading "5m" as five seconds
MintMutantFiveSeconds(adminId, secret, t) ==
    IF secret = ""
    THEN Thrown(E_SECRET_MISSING, NoToken)
    ELSE Returned([userId |-> adminId, role |-> "admin", alg |-> "HS256",
                   iat |-> t, exp |-> t + 5, key |-> secret])

\* mintAppJwt signing with whatever the environment holds, set or not
MintMutantSignsWithoutSecret(adminId, secret, t) ==
    Returned([userId |-> adminId, role |-> "admin", alg |-> "HS256",
              iat |-> t, exp |-> t + TOKEN_LIFETIME, key |-> secret])

\* secret: process.env.APP_JWT_SECRET ("" when unset); t: the clock in seconds
mintAppJwt(adminId, secret, t) ==
    IF secret = ""
    THEN Thrown(E_SECRET_MISSING, NoToken)
    ELSE Returned([userId |-> adminId, role |-> "admin", alg |-> "HS256",
                   iat |-> t, exp |-> t + TOKEN_LIFETIME, key |-> secret])

\* The JSON bodies the dispatcher sends to a job function
JobBody(keys, mode, force) == [keys |-> keys, mode |-> mode, force |-> force]

\* What a job function can answer: an HTTP status with a text that is JSON,
\* not JSON, or empty; or the fetch rejects.
JobAnswer(status, kind) == [kind |-> kind, status |-> status]

JobOutcomes ==
    {JobAnswer(200, "json"), JobAnswer(200, "empty"), JobAnswer(401, "json"),
     JobAnswer(502, "text"), JobAnswer(0, "throw")}

\* data = text ? JSON.parse(text) : null, and { raw: text } when parsing throws
ParsedData(kind) ==
    CASE kind = "json"  -> "parsed"
      [] kind = "text"  -> "raw-wrapped"
      [] kind = "empty" -> "null"
      [] OTHER          -> "none"

\* One POST to `${SUPABASE_FUNCTIONS_BASE}/${fnName}`: the call as the job
\* function receives it, and what callEdgeFunction returns (or that it threw)
callEdgeFunction(fnName, jwt, body, outcome) ==
    [call   |-> [fn |-> fnName, bearer |-> jwt, body |-> body],
     threw  |-> outcome.kind = "throw",
     status |-> outcome.status,
     data   |-> ParsedData(outcome.kind)]

----------------------------------------------------------------------------
(* shopify_settings: upsert with onConflict "admin_id", and the point read *)

SettingsRow(id, enabled, interval, created, updated) ==
    [admin_id |-> id, auto_sync_enabled |-> enabled,
     auto_sync_interval_minutes |-> interval,
     last_pull_at |-> -1, last_push_at |-> -1,
     created_at |-> created, updated_at |-> updated]

\* a plain insert, without the conflict target
UpsertMutantInsert(table, id, enabled, interval, t) ==
    table \cup {SettingsRow(id, enabled, interval, t, t)}

\* on conflict, the interval column is left as it was
UpsertMutantKeepsInterval(table, id, enabled, interval, t) ==
    IF \E x \in table : x.admin_id = id
    THEN {IF x.admin_id = id
          THEN [x EXCEPT !.auto_sync_enabled = enabled, !.updated_at = t]
          ELSE x : x \in table}
    ELSE table \cup {SettingsRow(id, enabled, interval, t, t)}

\* the tenant's row deleted and inserted anew
UpsertMutantReplacesRow(table, id, enabled, interval, t) ==
    {x \in table : x.admin_id # id} \cup {SettingsRow(id, enabled, interval, t, t)}

\* INSERT ... ON CONFLICT (admin_id) DO UPDATE SET the columns given
upsert(table, id, enabled, interval, t) ==
    IF \E x \in table : x.admin_id = id
    THEN {IF x.admin_id = id
          THEN [x EXCEPT !.auto_sync_enabled = enabled,
                         !.auto_sync_interval_minutes = interval,
                         !.updated_at = t]
          ELSE x : x \in table}
    ELSE table \cup {SettingsRow(id, enabled, interval, t, t)}

\* .from("shopify_settings").select(...).eq("admin_id", adminId).maybeSingle()
selectSettings(table, adminId) == maybeSingle({x \in table : x.admin_id = adminId})

----------------------------------------------------------------------------
(* Requests and responses                                                  *)

\* A JSON response: the keys present in the object and their values.  A
\* relayed job result has kind "relay" and carries the job's parsed data.
Body0 ==
    [kind |-> "object", keys |-> {}, connected |-> FALSE, ok |-> FALSE,
     error |-> Msg("", <<>>), errorType |-> "", errorDetails |-> NoDetails,
     adminId |-> <<>>,
     settings |-> {}, data |-> "none",
     auto_sync_enabled |-> FALSE, auto_sync_interval_minutes |-> 0]

jsonResponse(body, status) == [status |-> status, body |-> body]

NoResponse == jsonResponse(Body0, 0)

\* The request body as request.json() finds it: an object with the three
\* fields (JsUndefined when absent), the JSON value null, or not JSON at
\* all; "unread" until the handler reads it
RequestBody(kind, intent, enabled, intervalMinutes) ==
    [kind |-> kind, intent |-> intent, enabled |-> enabled,
     intervalMinutes |-> intervalMinutes]

Idle ==
    [pc |-> "idle", route |-> "", shop |-> JsUndefined,
     body |-> RequestBody("unread", JsUndefined, JsUndefined, JsUndefined),
     resolved |-> Resolved(NullId, NoError, 0, <<>>),
     lookup |-> NoOutcome, settingsRead |-> NoOutcome,
     intent |-> <<>>, validatedAdminId |-> NullId,
     jwt |-> NoToken, mintedAt |-> 0, mintCalls |-> 0, jobCalls |-> <<>>,
     jobAnswer |-> JobAnswer(0, "none"),
     upserts |-> <<>>, upsertOutcome |-> NoOutcome, response |-> NoResponse]

----------------------------------------------------------------------------
(* State                                                                   *)

VARIABLES
    env,               \* process.env: APP_JWT_SECRET, SUPABASE_URL, NODE_ENV
    now,               \* the clock, in seconds
    shopify_shops,     \* app_private.shopify_shops: rows (shop_domain, admin_id)
    shopify_settings,  \* public.shopify_settings: rows keyed by admin_id
    req,               \* the requests in flight, one record per request slot
    lastToggle,        \* history: per tenant, the payload of the last upsert applied
    validation,        \* a call of a validation utility on its own: input and result
    sessions           \* db.session: the shops that have a stored session

vars == <<env, now, shopify_shops, shopify_settings, req, lastToggle, validation, sessions>>

\* Bounds of the model
MaxClock == 1

MaxConcurrent == 2

\* The request slots: one when requests are served one after the other
Slots == {1}

ConcurrentSlots == 1..MaxConcurrent

----------------------------------------------------------------------------
(* Inputs                                                                  *)

Shop(label) == label \o MYSHOPIFY_SUFFIX

T1 == <<"t", "1">>

T2 == <<"t", "2">>

\* The bindings the store holds: two linked shops, a shop whose stored
\* tenant id is malformed, one whose stored id is padded with a blank, and
\* one whose row has an empty tenant id.  Shop s9 has no row.
Bindings ==
    {[shop_domain |-> Shop(<<"s", "1">>), admin_id |-> T1],
     [shop_domain |-> Shop(<<"s", "2">>), admin_id |-> T2],
     [shop_domain |-> Shop(<<"s", "3">>), admin_id |-> <<"t", " ", "3">>],
     [shop_domain |-> Shop(<<"s", "4">>), admin_id |-> <<" ", "t", "1">>],
     [shop_domain |-> Shop(<<"s", "5">>), admin_id |-> <<>>]}

\* The shops whose sessions the session storage holds
StoredSessions == {Shop(<<"s", "1">>), Shop(<<"s", "2">>)}

\* session.shop as the authentication layer hands it over
SessionShops ==
    {JsString(Shop(<<"s", "1">>)), JsString(Shop(<<"s", "2">>)),
     JsString(Shop(<<"s", "3">>)), JsString(Shop(<<"s", "4">>)),
     JsString(Shop(<<"s", "5">>)), JsString(Shop(<<"s", "9">>)),
     JsString(Shop(<<"S", "1">>)), JsString(<<"s", "1", ".", "e", "v", "i", "l", ".", "c", "o", "m">>), JsUndefined}

I_PULL == <<"p", "u", "l", "l">>

I_PUSH_CHANGED == <<"p", "u", "s", "h", "_", "c", "h", "a", "n", "g", "e", "d">>

I_PUSH_ALL == <<"p", "u", "s", "h", "_", "a", "l", "l">>

I_TOGGLE_AUTO == <<"t", "o", "g", "g", "l", "e", "_", "a", "u", "t", "o">>

IntentValues ==
    {JsString(I_PULL), JsString(I_PUSH_CHANGED), JsString(I_PUSH_ALL),
     JsString(I_TOGGLE_AUTO), JsString(<<"d", "e", "l", "e", "t", "e">>), JsString(<<>>),
     JsNumber(5, 0), JsUndefined}

\* (enabled, intervalMinutes) pairs of toggle_auto bodies
TogglePayloads ==
    {<<JsBool(TRUE), JsNumber(30, 0)>>, <<JsBool(FALSE), JsUndefined>>,
     <<JsUndefined, JsNull>>, <<JsBool(TRUE), JsNumber(0, 0)>>,
     <<JsBool(TRUE), JsNumber(1441, 0)>>, <<JsBool(TRUE), JsNumber(1, 5)>>,
     <<JsBool(TRUE), JsString(<<"1", "5">>)>>}

RequestBodies ==
    {RequestBody("invalid", JsUndefined, JsUndefined, JsUndefined),
     RequestBody("null", JsUndefined, JsUndefined, JsUndefined)}
    \cup {RequestBody("object", i, JsUndefined, JsUndefined) : i \in IntentValues}
    \cup {RequestBody("object", JsString(I_TOGGLE_AUTO), p[1], p[2]) : p \in TogglePayloads}
    \cup {RequestBody("object", JsString(I_PULL), JsBool(TRUE), JsNumber(30, 0))}

\* process.env; an unset variable is ""
ProcessEnv(secret, url, nodeEnv) ==
    [APP_JWT_SECRET |-> secret, SUPABASE_URL |-> url, NODE_ENV |-> nodeEnv]

Envs ==
    {ProcessEnv("secret", "https://db", "production"),
     ProcessEnv("secret", "https://db", "development"),
     ProcessEnv("", "https://db", "production"),
     ProcessEnv("secret", "", "production")}

\* A call of one of the validation utilities: the function, its arguments,
\* and its result once it has run
Call(fn, input, defaultValue) ==
    [fn |-> fn, input |-> input, defaultValue |-> defaultValue,
     returned |-> FALSE, output |-> Returned(<<>>)]

NoCall == Call("", JsUndefined, 0)

----------------------------------------------------------------------------
(* Initial state: the process has started, no request is in flight         *)

Init ==
    /\ env \in Envs
    /\ now = 0
    /\ shopify_shops = Bindings
    /\ shopify_settings = {}
    /\ req = [r \in Slots |-> Idle]
    /\ lastToggle = {}
    /\ sessions = StoredSessions
    /\ validation = NoCall

\* A request arrives: authenticate.admin(request) yields the session
Begin(r, route, shop) ==
    /\ req[r].pc = "idle"
    /\ req' = [req EXCEPT ![r] = [Idle EXCEPT !.pc = "resolve", !.route = route,
                                              !.shop = shop]]
    /\ UNCHANGED <<sessions, validation, env, now, shopify_shops, shopify_settings, lastToggle>>

\* The response has been sent; the slot takes the next request
Finish(r) ==
    /\ req[r].pc = "done"
    /\ req' = [req EXCEPT ![r] = Idle]
    /\ UNCHANGED <<sessions, validation, env, now, shopify_shops, shopify_settings, lastToggle>>

Tick ==
    /\ now < MaxClock
    /\ now' = now + 1
    /\ UNCHANGED <<sessions, validation, env, shopify_shops, shopify_settings, req, lastToggle>>

\* What the store did with the lookup the resolver issued, if it issued one
Asked(res, outcome) == IF res.lookups = 1 THEN outcome ELSE NoOutcome

\* return jsonResponse(body, { status })
Respond(r, q, body, status) ==
    req' = [req EXCEPT ![r] = [q EXCEPT !.pc = "done",
                                        !.response = jsonResponse(body, status)]]

\* a catch block that answers without the error field
CaughtMutantNoErrorField(e, keys) ==
    [Body0 EXCEPT !.keys = (keys \ {"error"}) \cup
                            (IF env.NODE_ENV = "development" /\ e.isError THEN {"stack"} ELSE {}),
                  !.error = sanitizeErrorMessage(e, env.NODE_ENV = "production")]

\* the catch block of loader and action: { ok: false (action only), error:
\* msg, stack (development only) }
CaughtResponse(e, keys) ==
    [Body0 EXCEPT !.keys = keys \cup
                            (IF env.NODE_ENV = "development" /\ e.isError THEN {"stack"} ELSE {}),
                  !.error = sanitizeErrorMessage(e, env.NODE_ENV = "production")]

\* "Server misconfigured: SUPABASE_URL missing"
E_URL_MISSING ==
    <<"S", "e", "r", "v", "e", "r", " ", "m", "i", "s", "c", "o", "n", "f", "i",
          "g", "u", "r", "e", "d", ":", " ", "S", "U", "P", "A", "B", "A", "S", "E",
          "_", "U", "R", "L", " ", "m", "i", "s", "s", "i", "n", "g">>

\* "TypeError: fetch failed"
E_FETCH_FAILED == ERR_FETCH.message

\* supabaseAdmin() is called after the shop domain validated and before the
\* try block of getAdminIdForShop: mustEnv throws into the handler's catch
ConfigMissing(shop) == validateShopDomain(shop).ok /\ env.SUPABASE_URL = ""

----------------------------------------------------------------------------
(* routes/api.sync: action (POST /api/sync)                                *)

\* const { adminId, error } = await getAdminIdForShop(session.shop), and the
\* two early returns that follow it
actionResolve(r) ==
    /\ req[r].pc = "resolve"
    /\ req[r].route = "sync.action"
    /\ \E outcome \in StoreOutcomes :
         LET res == getAdminIdForShop(req[r].shop, shopify_shops, outcome)
             q == [req[r] EXCEPT !.resolved = res, !.lookup = Asked(res, outcome)]
         IN
         IF ConfigMissing(req[r].shop)
         THEN Respond(r, req[r], CaughtResponse(ErrorValue(E_URL_MISSING), {"ok", "error"}), 500)
         ELSE IF res.error.present
         THEN Respond(r, q,
                 [Body0 EXCEPT !.keys = {"ok", "error", "errorType"}
                                         \cup (IF res.error.details.kind = "undefined"
                                               THEN {} ELSE {"errorDetails"}),
                               !.error = res.error.message,
                               !.errorType = res.error.type,
                               !.errorDetails = res.error.details],
                 IF res.error.statusCode # 0 THEN res.error.statusCode ELSE 500)
         ELSE IF res.adminId = NullId
         THEN Respond(r, q,
                 [Body0 EXCEPT !.keys = {"ok", "error"},
                               !.error = Msg("Shop not linked to GetInv tenant yet. Go to your GetInv app and connect this shop first.", <<>>)],
                 409)
         ELSE req' = [req EXCEPT ![r] = [q EXCEPT !.pc = "body"]]
    /\ UNCHANGED <<sessions, validation, env, now, shopify_shops, shopify_settings, lastToggle>>

\* "Cannot read properties of null (reading 'intent')"
E_NULL_BODY ==
    <<"C", "a", "n", "n", "o", "t", " ", "r", "e", "a", "d", " ", "p", "r", "o",
          "p", "e", "r", "t", "i", "e", "s", " ", "o", "f", " ", "n", "u", "l", "l",
          " ", "(", "r", "e", "a", "d", "i", "n", "g", " ", "'", "i", "n", "t", "e",
          "n", "t", "'", ")">>

\* the tenant to act on taken from a field of the request body
ReadBodyMutantTenantFromBody(r, bodies) ==
    /\ req[r].pc = "body"
    /\ req[r].route = "sync.action"
    /\ \E body \in bodies :
       LET q == [req[r] EXCEPT !.body = body]
           vi == validateIntent(q.body.intent)
           va == validateAdminId(JsString(q.resolved.adminId))
       IN
       IF q.body.kind = "invalid"
       THEN Respond(r, q,
               [Body0 EXCEPT !.keys = {"ok", "error"},
                             !.error = Msg("Invalid JSON in request body", <<>>)], 400)
       ELSE IF q.body.kind = "null"
       THEN Respond(r, q, CaughtResponse(ErrorValue(E_NULL_BODY), {"ok", "error"}), 500)
       ELSE IF ~vi.ok
       THEN Respond(r, q,
               [Body0 EXCEPT !.keys = {"ok", "error"},
                             !.error = sanitizeErrorMessage(ErrorValue(vi.msg),
                                           env.NODE_ENV = "production")], 400)
       ELSE IF ~va.ok
       THEN Respond(r, q,
               [Body0 EXCEPT !.keys = {"ok", "error"},
                             !.error = Msg("Invalid admin ID format", <<>>)], 500)
       ELSE req' = [req EXCEPT ![r] = [q EXCEPT !.pc = "mint", !.intent = vi.v,
                                                !.validatedAdminId =
                                                    IF Boolean(q.body.enabled) THEN T2 ELSE va.v]]
    /\ UNCHANGED <<sessions, validation, env, now, shopify_shops, shopify_settings, lastToggle>>

\* body = await request.json(); validateIntent(body.intent);
\* validateAdminId(adminId)
readBody(r, bodies) ==
    /\ req[r].pc = "body"
    /\ req[r].route = "sync.action"
    /\ \E body \in bodies :
       LET q == [req[r] EXCEPT !.body = body]
           vi == validateIntent(q.body.intent)
           va == validateAdminId(JsString(q.resolved.adminId))
       IN
       IF q.body.kind = "invalid"
       THEN Respond(r, q,
               [Body0 EXCEPT !.keys = {"ok", "error"},
                             !.error = Msg("Invalid JSON in request body", <<>>)], 400)
       ELSE IF q.body.kind = "null"
       THEN Respond(r, q, CaughtResponse(ErrorValue(E_NULL_BODY), {"ok", "error"}), 500)
       ELSE IF ~vi.ok
       THEN Respond(r, q,
               [Body0 EXCEPT !.keys = {"ok", "error"},
                             !.error = sanitizeErrorMessage(ErrorValue(vi.msg),
                                           env.NODE_ENV = "production")], 400)
       ELSE IF ~va.ok
       THEN Respond(r, q,
               [Body0 EXCEPT !.keys = {"ok", "error"},
                             !.error = Msg("Invalid admin ID format", <<>>)], 500)
       ELSE req' = [req EXCEPT ![r] = [q EXCEPT !.pc = "mint", !.intent = vi.v,
                                                !.validatedAdminId = va.v]]
    /\ UNCHANGED <<sessions, validation, env, now, shopify_shops, shopify_settings, lastToggle>>

\* const jwt = await mintAppJwt(validatedAdminId)
actionMint(r) ==
    /\ req[r].pc = "mint"
    /\ req[r].route = "sync.action"
    /\ LET q == [req[r] EXCEPT !.mintCalls = @ + 1, !.mintedAt = now]
           m == mintAppJwt(q.validatedAdminId, env.APP_JWT_SECRET, now)
       IN
       IF ~m.ok
       THEN Respond(r, q, CaughtResponse(ErrorValue(m.msg), {"ok", "error"}), 500)
       ELSE req' = [req EXCEPT ![r] = [q EXCEPT !.pc = "dispatch", !.jwt = m.v]]
    /\ UNCHANGED <<sessions, validation, env, now, shopify_shops, shopify_settings, lastToggle>>

\* The payload of a toggle_auto request as the handler computes it
TogglePayload(body) ==
    [enabled |-> Boolean(body.enabled),
     interval |-> validateIntervalMinutes(body.intervalMinutes, DEFAULT_INTERVAL)]

RecordToggle(history, id, enabled, interval) ==
    {x \in history : x.admin_id # id}
        \cup {[admin_id |-> id, enabled |-> enabled, interval |-> interval]}

\* What the store can do with the upsert: apply it, refuse it with an error
\* object, fail before applying it, or apply it and lose the reply
UpsertOutcomes == StoreOutcomes \cup {[kind |-> "lost", err |-> ERR_FETCH]}

\* One effect of the dispatch: the request afterwards, the response, and
\* the settings table and toggle history afterwards
Effect(q, body, status, table, history) ==
    [q |-> q, body |-> body, status |-> status, table |-> table, history |-> history]

\* push_all sent without force
JobForMutantNoForce(intent) ==
    CASE intent = I_PULL         -> [fn |-> "shopify-pull-products", body |-> JobBody({}, "", FALSE)]
      [] intent = I_PUSH_CHANGED -> [fn |-> "shopify-push-products", body |-> JobBody({"mode"}, "changed", FALSE)]
      [] intent = I_PUSH_ALL     -> [fn |-> "shopify-push-products", body |-> JobBody({"mode"}, "all", FALSE)]

\* the pull / push_changed / push_all branches
JobFor(intent) ==
    CASE intent = I_PULL         -> [fn |-> "shopify-pull-products", body |-> JobBody({}, "", FALSE)]
      [] intent = I_PUSH_CHANGED -> [fn |-> "shopify-push-products", body |-> JobBody({"mode"}, "changed", FALSE)]
      [] intent = I_PUSH_ALL     -> [fn |-> "shopify-push-products", body |-> JobBody({"mode", "force"}, "all", TRUE)]

RelayEffects(q, table, history) ==
    {LET res == callEdgeFunction(JobFor(q.intent).fn, q.jwt, JobFor(q.intent).body, o)
         q2 == [q EXCEPT !.jobCalls = Append(@, res.call), !.jobAnswer = o]
     IN
     IF res.threw
     THEN Effect(q2, CaughtResponse(ErrorValue(E_FETCH_FAILED), {"ok", "error"}), 500, table, history)
     ELSE Effect(q2, [Body0 EXCEPT !.kind = "relay", !.data = res.data], res.status, table, history)
     : o \in JobOutcomes}

\* the toggle_auto branch
ToggleEffects(q, table, history) ==
    LET p == TogglePayload(q.body)
        write == [admin_id |-> q.validatedAdminId, auto_sync_enabled |-> p.enabled,
                  auto_sync_interval_minutes |-> p.interval.v, updated_at |-> now]
        q2 == [q EXCEPT !.upserts = Append(@, write)]
        q3(o) == [q2 EXCEPT !.upsertOutcome = o]
        applied == upsert(table, q.validatedAdminId, p.enabled, p.interval.v, now)
        recorded == RecordToggle(history, q.validatedAdminId, p.enabled, p.interval.v)
    IN
    IF ~p.interval.ok
    THEN {Effect(q, [Body0 EXCEPT !.keys = {"ok", "error"},
                                  !.error = sanitizeErrorMessage(ErrorValue(p.interval.msg),
                                                env.NODE_ENV = "production")],
                 400, table, history)}
    ELSE {CASE o.kind = "ok" ->
                 Effect(q3(o), [Body0 EXCEPT !.keys = {"ok", "auto_sync_enabled", "auto_sync_interval_minutes"},
                                          !.ok = TRUE,
                                          !.auto_sync_enabled = p.enabled,
                                          !.auto_sync_interval_minutes = p.interval.v],
                        200, applied, recorded)
            [] o.kind = "error" ->
                 Effect(q3(o), [Body0 EXCEPT !.keys = {"ok", "error"},
                                          !.error = Msg("", o.err.message)],
                        500, table, history)
            [] o.kind = "throw" ->
                 Effect(q3(o), CaughtResponse(ErrorValue(o.err.message), {"ok", "error"}),
                        500, table, history)
            [] o.kind = "lost" ->
                 Effect(q3(o), CaughtResponse(ErrorValue(o.err.message), {"ok", "error"}),
                        500, applied, recorded)
          : o \in UpsertOutcomes}

DispatchEffects(q, table, history) ==
    IF q.intent \in {I_PULL, I_PUSH_CHANGED, I_PUSH_ALL}
    THEN RelayEffects(q, table, history)
    ELSE IF q.intent = I_TOGGLE_AUTO
    THEN ToggleEffects(q, table, history)
    ELSE {Effect(q, [Body0 EXCEPT !.keys = {"ok", "error"},
                                  !.error = Msg("Unknown intent", <<>>)],
                 400, table, history)}

\* the four intent branches and the "Unknown intent" fallback
actionDispatch(r) ==
    /\ req[r].pc = "dispatch"
    /\ req[r].route = "sync.action"
    /\ \E e \in DispatchEffects(req[r], shopify_settings, lastToggle) :
         /\ Respond(r, e.q, e.body, e.status)
         /\ shopify_settings' = e.table
         /\ lastToggle' = e.history
    /\ UNCHANGED <<sessions, validation, env, now, shopify_shops>>

----------------------------------------------------------------------------
(* routes/api.sync: loader (GET /api/sync)                                 *)

\* the columns the status read selects
SelectedColumns(rows) ==
    {[auto_sync_enabled |-> x.auto_sync_enabled,
      auto_sync_interval_minutes |-> x.auto_sync_interval_minutes,
      last_pull_at |-> x.last_pull_at, last_push_at |-> x.last_push_at,
      created_at |-> x.created_at, updated_at |-> x.updated_at] : x \in rows}

loaderResolve(r) ==
    /\ req[r].pc = "resolve"
    /\ req[r].route = "sync.loader"
    /\ \E outcome \in StoreOutcomes :
         LET res == getAdminIdForShop(req[r].shop, shopify_shops, outcome)
             q == [req[r] EXCEPT !.resolved = res, !.lookup = Asked(res, outcome)]
         IN
         IF ConfigMissing(req[r].shop)
         THEN Respond(r, req[r], CaughtResponse(ErrorValue(E_URL_MISSING), {"error"}), 500)
         ELSE IF res.error.present
         THEN Respond(r, q,
                 [Body0 EXCEPT !.keys = {"connected", "shopDomain", "error", "errorType",
                                         "troubleshooting"}
                                         \cup (IF res.error.details.kind = "undefined"
                                               THEN {} ELSE {"errorDetails"}),
                               !.error = res.error.message,
                               !.errorType = res.error.type,
                               !.errorDetails = res.error.details],
                 IF res.error.statusCode # 0 THEN res.error.statusCode ELSE 500)
         ELSE IF res.adminId = NullId
         THEN Respond(r, q, [Body0 EXCEPT !.keys = {"connected", "shopDomain", "reason"}], 200)
         ELSE req' = [req EXCEPT ![r] = [q EXCEPT !.pc = "settings"]]
    /\ UNCHANGED <<sessions, validation, env, now, shopify_shops, shopify_settings, lastToggle>>

\* a status read that creates the settings row it did not find
LoaderSettingsMutantCreatesRow(r) ==
    /\ req[r].pc = "settings"
    /\ req[r].route = "sync.loader"
    /\ \E outcome \in StoreOutcomes :
         LET q == [req[r] EXCEPT !.settingsRead = outcome]
             res == IF outcome.kind = "error"
                    THEN [error |-> TRUE, err |-> outcome.err, data |-> {}]
                    ELSE selectSettings(shopify_settings, q.resolved.adminId)
         IN
         IF outcome.kind = "throw"
         THEN /\ Respond(r, q, CaughtResponse(ErrorValue(outcome.err.message), {"error"}), 500)
              /\ UNCHANGED shopify_settings
         ELSE IF res.error
         THEN /\ Respond(r, q,
                   [Body0 EXCEPT !.keys = {"connected", "shopDomain", "adminId", "settings", "error"},
                                 !.connected = TRUE,
                                 !.adminId = q.resolved.adminId,
                                 !.error = Msg("", res.err.message)], 200)
              /\ UNCHANGED shopify_settings
         ELSE /\ Respond(r, q,
                   [Body0 EXCEPT !.keys = {"connected", "shopDomain", "adminId", "settings"},
                                 !.connected = TRUE,
                                 !.adminId = q.resolved.adminId,
                                 !.settings = SelectedColumns(res.data)], 200)
              /\ shopify_settings' =
                     IF res.data = {}
                     THEN upsert(shopify_settings, q.resolved.adminId, FALSE,
                                 DEFAULT_INTERVAL, now)
                     ELSE shopify_settings
    /\ UNCHANGED <<sessions, validation, env, now, shopify_shops, lastToggle>>

\* const { data: settings, error } = await supabase.from("shopify_settings")...
loaderSettings(r) ==
    /\ req[r].pc = "settings"
    /\ req[r].route = "sync.loader"
    /\ \E outcome \in StoreOutcomes :
         LET q == [req[r] EXCEPT !.settingsRead = outcome]
             res == IF outcome.kind = "error"
                    THEN [error |-> TRUE, err |-> outcome.err, data |-> {}]
                    ELSE selectSettings(shopify_settings, q.resolved.adminId)
         IN
         IF outcome.kind = "throw"
         THEN Respond(r, q, CaughtResponse(ErrorValue(outcome.err.message), {"error"}), 500)
         ELSE IF res.error
         THEN Respond(r, q,
                 [Body0 EXCEPT !.keys = {"connected", "shopDomain", "adminId", "settings", "error"},
                               !.connected = TRUE,
                               !.adminId = q.resolved.adminId,
                               !.error = Msg("", res.err.message)], 200)
         ELSE Respond(r, q,
                 [Body0 EXCEPT !.keys = {"connected", "shopDomain", "adminId", "settings"},
                               !.connected = TRUE,
                               !.adminId = q.resolved.adminId,
                               !.settings = SelectedColumns(res.data)], 200)
    /\ UNCHANGED <<sessions, validation, env, now, shopify_shops, shopify_settings, lastToggle>>

----------------------------------------------------------------------------
(* routes/app._index: getAdminIdForShop and loader                         *)

indexGetAdminIdForShop(shopDomain, table, outcome) ==
    IF env.SUPABASE_URL = ""
    THEN Resolved(NullId,
            ConnectionError("configuration", Msg("Supabase configuration missing", <<>>), 0),
            0, <<>>)
    ELSE LET res == IF outcome.kind = "error"
                    THEN [error |-> TRUE, err |-> outcome.err, data |-> {}]
                    ELSE maybeSingle({x \in table : x.shop_domain = shopDomain})
         IN
         IF outcome.kind = "throw"
         THEN Resolved(NullId, ConnectionError("unknown", Msg("", outcome.err.message), 0),
                       1, shopDomain)
         ELSE IF res.error
         THEN Resolved(NullId, ConnectionError("connection", Msg("", res.err.message), 0),
                       1, shopDomain)
         ELSE revalidateFound(res.data, shopDomain)

\* The loader answers { shopDomain, clientId, externalUrl, connectionStatus }
\* with status 200; the response recorded is connectionStatus.
indexResolve(r) ==
    /\ req[r].pc = "resolve"
    /\ req[r].route = "index.loader"
    /\ \E outcome \in StoreOutcomes :
         LET valid == validateShopDomain(req[r].shop)
             res == indexGetAdminIdForShop(valid.v, shopify_shops, outcome)
             q == [req[r] EXCEPT !.resolved = res, !.lookup = Asked(res, outcome)]
         IN
         IF ~valid.ok
         THEN Respond(r, req[r],
                 [Body0 EXCEPT !.keys = {"connected", "shopDomain", "error", "errorType"},
                               !.error = sanitizeErrorMessage(ErrorValue(valid.msg),
                                             env.NODE_ENV = "production"),
                               !.errorType = "validation"], 200)
         ELSE IF res.error.present
         THEN Respond(r, q,
                 [Body0 EXCEPT !.keys = {"connected", "shopDomain", "error", "errorType"},
                               !.error = res.error.message,
                               !.errorType = res.error.type], 200)
         ELSE IF res.adminId = NullId
         THEN Respond(r, q, [Body0 EXCEPT !.keys = {"connected", "shopDomain", "reason"}], 200)
         ELSE req' = [req EXCEPT ![r] = [q EXCEPT !.pc = "settings"]]
    /\ UNCHANGED <<sessions, validation, env, now, shopify_shops, shopify_settings, lastToggle>>

\* const { data: settings } = await supabase.from("shopify_settings")...
indexSettings(r) ==
    /\ req[r].pc = "settings"
    /\ req[r].route = "index.loader"
    /\ \E outcome \in StoreOutcomes :
         LET q == [req[r] EXCEPT !.settingsRead = outcome]
             res == IF outcome.kind = "error"
                    THEN [error |-> TRUE, err |-> outcome.err, data |-> {}]
                    ELSE selectSettings(shopify_settings, q.resolved.adminId)
         IN
         IF outcome.kind = "throw"
         THEN Respond(r, q,
                 [Body0 EXCEPT !.keys = {"connected", "shopDomain", "error", "errorType"}
                                         \cup (IF env.NODE_ENV = "production" THEN {}
                                               ELSE {"errorDetails"}),
                               !.error = sanitizeErrorMessage(ErrorValue(outcome.err.message),
                                             env.NODE_ENV = "production"),
                               !.errorType = "unknown"], 200)
         ELSE Respond(r, q,
                 [Body0 EXCEPT !.keys = {"connected", "shopDomain", "adminId", "settings"},
                               !.connected = TRUE,
                               !.adminId = q.resolved.adminId,
                               !.settings = SelectedColumns(res.data)], 200)
    /\ UNCHANGED <<sessions, validation, env, now, shopify_shops, shopify_settings, lastToggle>>

----------------------------------------------------------------------------
(* app/routes/api.sync.ts: the route without input validation              *)

\* getAdminIdForShop of app/routes/api.sync.ts: throws on a store error,
\* returns data?.admin_id ?? null otherwise
legacyGetAdminIdForShop(shopDomain, table, outcome) ==
    LET res == IF outcome.kind = "error"
               THEN [error |-> TRUE, err |-> outcome.err, data |-> {}]
               ELSE maybeSingle({x \in table : x.shop_domain = shopDomain.s})
    IN
    IF outcome.kind = "throw"
    THEN Thrown(outcome.err.message, NullId)
    ELSE IF res.error
    THEN Thrown(res.err.message, NullId)
    ELSE IF res.data = {} THEN Returned(NullId)
    ELSE Returned((CHOOSE x \in res.data : TRUE).admin_id)

\* catch (e) { return jsonResponse({ ok: false, error: e.message }, 500) }
LegacyCaught(m) == [Body0 EXCEPT !.keys = {"ok", "error"}, !.error = Msg("", m)]

legacyActionResolve(r) ==
    /\ req[r].pc = "resolve"
    /\ req[r].route = "legacy.action"
    /\ \E outcome \in StoreOutcomes :
         LET res == legacyGetAdminIdForShop(req[r].shop, shopify_shops, outcome)
             q == [req[r] EXCEPT !.resolved = Resolved(res.v, NoError, 1, req[r].shop.s),
                                 !.lookup = outcome]
         IN
         IF env.SUPABASE_URL = ""
         THEN Respond(r, req[r], LegacyCaught(E_URL_MISSING), 500)
         ELSE IF ~res.ok
         THEN Respond(r, q,
                 [Body0 EXCEPT !.keys = {"ok", "error"},
                               !.error = Msg("Failed to read app_private.shopify_shops. Details: ", res.msg)],
                 500)
         ELSE IF res.v = NullId
         THEN Respond(r, q,
                 [Body0 EXCEPT !.keys = {"ok", "error"},
                               !.error = Msg("Shop not linked to GetInv tenant yet. Go to your GetInv app and connect this shop first.", <<>>)],
                 409)
         ELSE req' = [req EXCEPT ![r] = [q EXCEPT !.pc = "mint"]]
    /\ UNCHANGED <<sessions, validation, env, now, shopify_shops, shopify_settings, lastToggle>>

\* const intent = String(body?.intent || "")
legacyIntent(body) ==
    IF body.kind = "object" /\ Boolean(body.intent) THEN String(body.intent) ELSE <<>>

\* The requests sent to the route without validation: a linked and an
\* unlinked shop, every intent, and toggle bodies with whole-number intervals
LegacyBodies ==
    {b \in RequestBodies :
        /\ b.intervalMinutes.t \in {"undefined", "number"}
        /\ b.intervalMinutes.t = "number" =>
              /\ b.intervalMinutes.f = 0
              /\ b.intervalMinutes.n \in MIN_INTERVAL..MAX_INTERVAL}

\* body = await request.json().catch(() => ({})); intent = String(...);
\* const jwt = await mintAppJwt(adminId)
legacyActionMint(r) ==
    /\ req[r].pc = "mint"
    /\ req[r].route = "legacy.action"
    /\ \E body \in LegacyBodies :
       LET q == [req[r] EXCEPT !.body = body,
                               !.mintCalls = @ + 1, !.mintedAt = now,
                               !.intent = legacyIntent(body),
                               !.validatedAdminId = req[r].resolved.adminId]
           m == mintAppJwt(q.resolved.adminId, env.APP_JWT_SECRET, now)
       IN
       IF ~m.ok
       THEN Respond(r, q, LegacyCaught(m.msg), 500)
       ELSE req' = [req EXCEPT ![r] = [q EXCEPT !.pc = "dispatch", !.jwt = m.v]]
    /\ UNCHANGED <<sessions, validation, env, now, shopify_shops, shopify_settings, lastToggle>>

\* typeof body?.intervalMinutes === "number" ? body.intervalMinutes : 15
\* (LegacyBodies carries whole numbers only)
legacyInterval(body) ==
    IF body.kind = "object" /\ body.intervalMinutes.t = "number"
    THEN body.intervalMinutes.n
    ELSE DEFAULT_INTERVAL

LegacyDispatchEffects(q, table, history) ==
    IF q.intent \in {I_PULL, I_PUSH_CHANGED, I_PUSH_ALL}
    THEN {LET res == callEdgeFunction(JobFor(q.intent).fn, q.jwt, JobFor(q.intent).body, o)
              q2 == [q EXCEPT !.jobCalls = Append(@, res.call), !.jobAnswer = o]
          IN
          IF res.threw
          THEN Effect(q2, LegacyCaught(E_FETCH_FAILED), 500, table, history)
          ELSE Effect(q2, [Body0 EXCEPT !.kind = "relay", !.data = res.data], res.status,
                      table, history)
          : o \in JobOutcomes}
    ELSE IF q.intent = I_TOGGLE_AUTO
    THEN LET enabled == q.body.kind = "object" /\ Boolean(q.body.enabled)
             interval == legacyInterval(q.body)
             write == [admin_id |-> q.validatedAdminId, auto_sync_enabled |-> enabled,
                       auto_sync_interval_minutes |-> interval, updated_at |-> now]
             q2 == [q EXCEPT !.upserts = Append(@, write)]
             q3(o) == [q2 EXCEPT !.upsertOutcome = o]
             applied == upsert(table, q.validatedAdminId, enabled, interval, now)
             recorded == RecordToggle(history, q.validatedAdminId, enabled, interval)
         IN
         {CASE o.kind = "ok" ->
                 Effect(q3(o), [Body0 EXCEPT !.keys = {"ok", "auto_sync_enabled", "auto_sync_interval_minutes"},
                                          !.ok = TRUE,
                                          !.auto_sync_enabled = enabled,
                                          !.auto_sync_interval_minutes = interval],
                        200, applied, recorded)
            [] o.kind = "error" ->
                 Effect(q3(o), LegacyCaught(o.err.message), 500, table, history)
            [] o.kind = "throw" ->
                 Effect(q3(o), LegacyCaught(o.err.message), 500, table, history)
            [] o.kind = "lost" ->
                 Effect(q3(o), LegacyCaught(o.err.message), 500, applied, recorded)
          : o \in UpsertOutcomes}
    ELSE {Effect(q, [Body0 EXCEPT !.keys = {"ok", "error"},
                                  !.error = Msg("Unknown intent", <<>>)],
                 400, table, history)}

legacyActionDispatch(r) ==
    /\ req[r].pc = "dispatch"
    /\ req[r].route = "legacy.action"
    /\ \E e \in LegacyDispatchEffects(req[r], shopify_settings, lastToggle) :
         /\ Respond(r, e.q, e.body, e.status)
         /\ shopify_settings' = e.table
         /\ lastToggle' = e.history
    /\ UNCHANGED <<sessions, validation, env, now, shopify_shops>>

----------------------------------------------------------------------------
(* Specifications                                                          *)

LegacyShops == {JsString(Shop(<<"s", "1">>)), JsString(Shop(<<"s", "9">>))}

PostSync(r) == \E shop \in SessionShops : Begin(r, "sync.action", shop)

GetSync(r) == \E shop \in SessionShops : Begin(r, "sync.loader", shop)

GetIndex(r) == \E shop \in SessionShops : Begin(r, "index.loader", shop)

PostLegacySync(r) == \E shop \in LegacyShops : Begin(r, "legacy.action", shop)

\* const body = await request.json() of a request of any shape
actionBody(r) == readBody(r, RequestBodies)

\* Requests are served one after the other
Next ==
    \/ Tick
    \/ \E r \in Slots :
         \/ PostSync(r) \/ GetSync(r) \/ GetIndex(r) \/ PostLegacySync(r)
         \/ actionResolve(r) \/ actionBody(r) \/ actionMint(r) \/ actionDispatch(r)
         \/ loaderResolve(r) \/ loaderSettings(r)
         \/ indexResolve(r) \/ indexSettings(r)
         \/ legacyActionResolve(r) \/ legacyActionMint(r) \/ legacyActionDispatch(r)
         \/ Finish(r)

Spec == Init /\ [][Next]_vars

\* Settings rows the store already holds when the process starts: tenant t1
\* has been synchronised before, tenant t2 has a fresh row
StoredSettings ==
    {[SettingsRow(T1, FALSE, 60, 0, 0) EXCEPT !.last_pull_at = 0, !.last_push_at = 0],
     SettingsRow(T2, TRUE, 15, 0, 0)}

InitStored ==
    /\ env = ProcessEnv("secret", "https://db", "production")
    /\ now = 0
    /\ shopify_shops = Bindings
    /\ shopify_settings = StoredSettings
    /\ req = [r \in Slots |-> Idle]
    /\ lastToggle = {}
    /\ sessions = StoredSessions
    /\ validation = NoCall

SpecStored == InitStored /\ [][Next]_vars

\* Two toggle_auto requests (or more) in flight at once for one tenant
ConcurrentShops == {JsString(Shop(<<"s", "1">>))}

ConcurrentBodies ==
    {RequestBody("object", JsString(I_TOGGLE_AUTO), JsBool(TRUE), JsNumber(30, 0)),
     RequestBody("object", JsString(I_TOGGLE_AUTO), JsBool(FALSE), JsUndefined)}

InitConcurrent ==
    /\ env = ProcessEnv("secret", "https://db", "production")
    /\ now = 0
    /\ shopify_shops = Bindings
    /\ shopify_settings = {}
    /\ req = [r \in ConcurrentSlots |-> Idle]
    /\ lastToggle = {}
    /\ sessions = StoredSessions
    /\ validation = NoCall

PostToggle(r) == \E shop \in ConcurrentShops : Begin(r, "sync.action", shop)

\* const body = await request.json() of a toggle_auto request
toggleBody(r) == readBody(r, ConcurrentBodies)

\* The host runs the requests in parallel: their steps interleave at every await
NextConcurrent ==
    \E r \in ConcurrentSlots :
        \/ PostToggle(r)
        \/ actionResolve(r) \/ toggleBody(r) \/ actionMint(r) \/ actionDispatch(r)

SpecConcurrent == InitConcurrent /\ [][NextConcurrent]_vars

----------------------------------------------------------------------------
(* The validation utilities called on their own                            *)

\* Bounds of the inputs: the longest label / tenant id enumerated character
\* by character, and how far past [MIN_INTERVAL, MAX_INTERVAL] numbers go
MaxInputLen == 3

IntervalMargin == 2

RECURSIVE StringsOf(_, _)
StringsOf(alphabet, n) ==
    IF n = 0 THEN {<<>>}
    ELSE {Append(s, c) : s \in StringsOf(alphabet, n - 1), c \in alphabet}

StringsUpTo(alphabet, n) == UNION {StringsOf(alphabet, k) : k \in 0..n}

Repeat(c, n) == [i \in 1..n |-> c]

NonStrings == {JsUndefined, JsNull, JsNumber(5, 0), JsBool(TRUE)}

Pads == {<<>>, <<" ">>}

ShopDomainInputs ==
    {JsString(l \o label \o suffix \o r) :
        l \in Pads, r \in Pads,
        label \in StringsUpTo({"a", "Z", "7", "-", "."}, MaxInputLen),
        suffix \in {MYSHOPIFY_SUFFIX, <<".", "M", "y", "S", "h", "o", "p", "i", "f", "y", ".", "C", "O", "M">>, <<".", "m", "y", "s", "h", "o", "p", "i", "f", "y", ".", "c", "o">>,
                    <<".", "e", "v", "i", "l", ".", "c", "o", "m">>}}
    \cup {JsString(Repeat("a", MAX_ID_LENGTH - Len(MYSHOPIFY_SUFFIX) + k) \o MYSHOPIFY_SUFFIX) :
            k \in {0, 1}}
    \cup NonStrings

IntentInputs ==
    IntentValues \cup {JsString(<<"P", "U", "L", "L">>), JsString(<<" ", "p", "u", "l", "l">>), JsNull, JsBool(TRUE)}

IntervalInputs ==
    {JsNumber(n, f) : n \in (0 - IntervalMargin)..(MAX_INTERVAL + IntervalMargin), f \in {0, 5}}
    \cup {JsUndefined, JsNull, JsString(<<"1", "5">>), JsBool(TRUE)}

AdminIdInputs ==
    {JsString(s) : s \in StringsUpTo({"t", "1", "-", "_", " ", "!"}, MaxInputLen)}
    \cup {JsString(Repeat("a", MAX_ID_LENGTH + k)) : k \in {0, 1}}
    \cup NonStrings

ValidationCalls ==
    {Call("validateShopDomain", x, 0) : x \in ShopDomainInputs}
    \cup {Call("validateIntent", x, 0) : x \in IntentInputs}
    \cup {Call("validateIntervalMinutes", x, d) : x \in IntervalInputs, d \in {DEFAULT_INTERVAL, 30}}
    \cup {Call("validateAdminId", x, 0) : x \in AdminIdInputs}

InitValidation ==
    /\ env = ProcessEnv("secret", "https://db", "production")
    /\ now = 0
    /\ shopify_shops = Bindings
    /\ shopify_settings = {}
    /\ req = [r \in Slots |-> Idle]
    /\ lastToggle = {}
    /\ sessions = StoredSessions
    /\ validation \in ValidationCalls

Return(fn, output) ==
    /\ validation.fn = fn
    /\ ~validation.returned
    /\ validation' = [validation EXCEPT !.returned = TRUE, !.output = output]
    /\ UNCHANGED <<sessions, env, now, shopify_shops, shopify_settings, req, lastToggle>>

applyValidateShopDomain ==
    Return("validateShopDomain", validateShopDomain(validation.input))

applyValidateIntent ==
    Return("validateIntent", validateIntent(validation.input))

applyValidateIntervalMinutes ==
    Return("validateIntervalMinutes",
           validateIntervalMinutes(validation.input, validation.defaultValue))

applyValidateAdminId ==
    Return("validateAdminId", validateAdminId(validation.input))

NextValidation ==
    \/ applyValidateShopDomain
    \/ applyValidateIntent
    \/ applyValidateIntervalMinutes
    \/ applyValidateAdminId

SpecValidation == InitValidation /\ [][NextValidation]_vars

----------------------------------------------------------------------------
(* utils/env.server: validation of the environment when the module loads   *)

MIN_SECRET_LENGTH == 32

\* secret.length of the secrets the environments below hold
SecretLength(secret) ==
    CASE secret = "" -> 0
      [] secret = "secret" -> 6
      [] secret = "0123456789abcdef0123456789abcde" -> 31
      [] secret = "0123456789abcdef0123456789abcdef" -> 32

\* validateEnv, for the variables of the model: validateRequired of
\* SUPABASE_URL and APP_JWT_SECRET, then validateJwtSecret; each throws an
\* EnvValidationError
validateEnv(processEnv) ==
    IF processEnv.SUPABASE_URL = ""
    THEN Thrown(<<"E", "n", "v", "i", "r", "o", "n", "m", "e", "n", "t", " ", "v", "a", "l",
          "i", "d", "a", "t", "i", "o", "n", " ", "f", "a", "i", "l", "e", "d", ":",
          " ", "S", "U", "P", "A", "B", "A", "S", "E", "_", "U", "R", "L", " ", "i",
          "s", " ", "r", "e", "q", "u", "i", "r", "e", "d", " ", "b", "u", "t", " ",
          "n", "o", "t", " ", "s", "e", "t">>, <<>>)
    ELSE IF processEnv.APP_JWT_SECRET = ""
    THEN Thrown(<<"E", "n", "v", "i", "r", "o", "n", "m", "e", "n", "t", " ", "v", "a", "l",
          "i", "d", "a", "t", "i", "o", "n", " ", "f", "a", "i", "l", "e", "d", ":",
          " ", "A", "P", "P", "_", "J", "W", "T", "_", "S", "E", "C", "R", "E", "T",
          " ", "i", "s", " ", "r", "e", "q", "u", "i", "r", "e", "d", " ", "b", "u",
          "t", " ", "n", "o", "t", " ", "s", "e", "t">>, <<>>)
    ELSE IF SecretLength(processEnv.APP_JWT_SECRET) < MIN_SECRET_LENGTH
    THEN Thrown(<<"E", "n", "v", "i", "r", "o", "n", "m", "e", "n", "t", " ", "v", "a", "l",
          "i", "d", "a", "t", "i", "o", "n", " ", "f", "a", "i", "l", "e", "d", ":",
          " ", "A", "P", "P", "_", "J", "W", "T", "_", "S", "E", "C", "R", "E", "T",
          " ", "m", "u", "s", "t", " ", "b", "e", " ", "a", "t", " ", "l", "e", "a",
          "s", "t", " ", "3", "2", " ", "c", "h", "a", "r", "a", "c", "t", "e", "r",
          "s", " ", "l", "o", "n", "g", " ", "f", "o", "r", " ", "s", "e", "c", "u",
          "r", "i", "t", "y">>, <<>>)
    ELSE Returned(<<>>)

\* The statements at the end of the module: nothing under test; otherwise
\* getEnv(), whose EnvValidationError is thrown on in production and
\* only logged elsewhere.  ok: the module loaded and the process goes on.
moduleLoad(processEnv) ==
    IF processEnv.NODE_ENV = "test" THEN Returned(<<>>)
    ELSE LET v == validateEnv(processEnv) IN
         IF v.ok THEN Returned(<<>>)
         ELSE IF processEnv.NODE_ENV = "production" THEN v
         ELSE Returned(<<>>)

StartupEnvs ==
    {ProcessEnv(secret, url, nodeEnv) :
        secret \in {"", "secret", "0123456789abcdef0123456789abcde",
                    "0123456789abcdef0123456789abcdef"},
        url \in {"", "https://db"},
        nodeEnv \in {"production", "development", "test"}}

InitStartup ==
    /\ env \in StartupEnvs
    /\ now = 0
    /\ shopify_shops = Bindings
    /\ shopify_settings = {}
    /\ req = [r \in Slots |-> Idle]
    /\ lastToggle = {}
    /\ sessions = StoredSessions
    /\ validation = Call("moduleLoad", JsUndefined, 0)

\* The process starts: the module is loaded once
loadEnvModule == Return("moduleLoad", moduleLoad(env))

\* The module loaded without throwing: the process serves requests
Started == validation.fn = "moduleLoad" /\ validation.returned /\ validation.output.ok

NextStartup ==
    \/ loadEnvModule
    \/ \E r \in Slots :
         \/ Started /\ PostSync(r)
         \/ Started /\ actionResolve(r)
         \/ Started /\ actionBody(r)
         \/ Started /\ actionMint(r)
         \/ Started /\ actionDispatch(r)
         \/ Started /\ Finish(r)

SpecStartup == InitStartup /\ [][NextStartup]_vars

----------------------------------------------------------------------------
(* The compliance webhooks: customers/data_request, customers/redact,      *)
(* shop/redact                                                             *)

\* What authenticate.webhook(request) yields: it rejects the request by
\* throwing, or it returns the payload, which is the JSON value null or an
\* object with or without shop_domain.  deleteMany records what the session
\* deletion did, once the handler asked for it.
WebhookPayloads ==
    {[kind |-> "rejected", shop_domain |-> JsUndefined, deleteMany |-> "none"],
     [kind |-> "null", shop_domain |-> JsUndefined, deleteMany |-> "none"]}
    \cup {[kind |-> "object", shop_domain |-> d, deleteMany |-> "none"] :
            d \in {JsUndefined, JsString(<<>>), JsString(Shop(<<"s", "1">>)),
                   JsString(Shop(<<"s", "9">>))}}

\* A webhook arrives for a shop
PostWebhook(r) ==
    \E route \in {"webhooks.customers.data_request", "webhooks.customers.redact",
                  "webhooks.shop.redact"},
       shop \in StoredSessions \cup {Shop(<<"s", "9">>)} :
        Begin(r, route, JsString(shop))

\* customers/data_request: a rejected request and a null payload (reading
\* payload.customer throws) end in the catch block, the rest in the try
dataRequestAction(r) ==
    /\ req[r].pc = "resolve"
    /\ req[r].route = "webhooks.customers.data_request"
    /\ \E payload \in WebhookPayloads :
         LET q == [req[r] EXCEPT !.body = payload] IN
         IF payload.kind \in {"rejected", "null"}
         THEN Respond(r, q, Body0, 200)
         ELSE Respond(r, q, Body0, 200)
    /\ UNCHANGED <<sessions, validation, env, now, shopify_shops, shopify_settings, lastToggle>>

\* customers/redact
customersRedactAction(r) ==
    /\ req[r].pc = "resolve"
    /\ req[r].route = "webhooks.customers.redact"
    /\ \E payload \in WebhookPayloads :
         LET q == [req[r] EXCEPT !.body = payload] IN
         IF payload.kind \in {"rejected", "null"}
         THEN Respond(r, q, Body0, 200)
         ELSE Respond(r, q, Body0, 200)
    /\ UNCHANGED <<sessions, validation, env, now, shopify_shops, shopify_settings, lastToggle>>

\* shop/redact with a failed session deletion answered as a server error
ShopRedactMutantFailsOnDeleteError(r) ==
    /\ req[r].pc = "resolve"
    /\ req[r].route = "webhooks.shop.redact"
    /\ \E payload \in WebhookPayloads, deleteMany \in {"ok", "throw"} :
         LET shopDomain == IF payload.kind = "object" /\ Boolean(payload.shop_domain)
                           THEN payload.shop_domain.s
                           ELSE req[r].shop.s
             asked == payload.kind = "object" /\ shopDomain # <<>>
             q == [req[r] EXCEPT !.body = [payload EXCEPT !.deleteMany =
                                               IF asked THEN deleteMany ELSE "none"]]
         IN
         IF payload.kind \in {"rejected", "null"}
         THEN /\ Respond(r, q, Body0, 200)
              /\ UNCHANGED sessions
         ELSE IF asked /\ deleteMany = "throw"
         THEN /\ Respond(r, q, Body0, 500)
              /\ UNCHANGED sessions
         ELSE /\ Respond(r, q, Body0, 200)
              /\ sessions' = (IF asked THEN sessions \ {shopDomain} ELSE sessions)
    /\ UNCHANGED <<validation, env, now, shopify_shops, shopify_settings, lastToggle>>

\* shop/redact: shopDomain = payload.shop_domain || shop; the sessions of
\* that shop are deleted; a deletion that throws is logged
shopRedactAction(r) ==
    /\ req[r].pc = "resolve"
    /\ req[r].route = "webhooks.shop.redact"
    /\ \E payload \in WebhookPayloads, deleteMany \in {"ok", "throw"} :
         LET shopDomain == IF payload.kind = "object" /\ Boolean(payload.shop_domain)
                           THEN payload.shop_domain.s
                           ELSE req[r].shop.s
             asked == payload.kind = "object" /\ shopDomain # <<>>
             q == [req[r] EXCEPT !.body = [payload EXCEPT !.deleteMany =
                                               IF asked THEN deleteMany ELSE "none"]]
         IN
         IF payload.kind \in {"rejected", "null"}
         THEN /\ Respond(r, q, Body0, 200)
              /\ UNCHANGED sessions
         ELSE IF asked /\ deleteMany = "throw"
         THEN /\ Respond(r, q, Body0, 200)
              /\ UNCHANGED sessions
         ELSE /\ Respond(r, q, Body0, 200)
              /\ sessions' = (IF asked THEN sessions \ {shopDomain} ELSE sessions)
    /\ UNCHANGED <<validation, env, now, shopify_shops, shopify_settings, lastToggle>>

InitWebhooks ==
    /\ env = ProcessEnv("secret", "https://db", "production")
    /\ now = 0
    /\ shopify_shops = Bindings
    /\ shopify_settings = {}
    /\ req = [r \in Slots |-> Idle]
    /\ lastToggle = {}
    /\ validation = NoCall
    /\ sessions \in SUBSET StoredSessions

NextWebhooks ==
    \E r \in Slots :
        \/ PostWebhook(r)
        \/ dataRequestAction(r) \/ customersRedactAction(r) \/ shopRedactAction(r)
        \/ Finish(r)

SpecWebhooks == InitWebhooks /\ [][NextWebhooks]_vars

----------------------------------------------------------------------------
(* Properties                                                              *)

Done(r) == req[r].pc = "done"

Response(r) == req[r].response

\* The request body is a JSON object whose intent is outside the closed set
InvalidIntent(b) == b.kind = "object" /\ ~validateIntent(b.intent).ok

\* C1: a POST /api/sync request for a linked shop whose intent is outside
\* {pull, push_changed, push_all, toggle_auto} (missing and non-string
\* intents included) is answered 400, and when it is answered the minter
\* has been invoked zero times, no job call and no settings upsert has been
\* made.
C1_InvalidIntentRejectedBeforeMint ==
    \A r \in DOMAIN req :
        (/\ Done(r)
         /\ req[r].route \in {"sync.action", "legacy.action"}
         /\ req[r].resolved.adminId # NullId
         /\ InvalidIntent(req[r].body))
        => /\ Response(r).status = 400
           /\ req[r].mintCalls = 0
           /\ req[r].jobCalls = <<>>
           /\ req[r].upserts = <<>>

\* C2: every job call of a pull / push_changed / push_all request carries a
\* bearer credential with role "admin" whose subject (userId) is the tenant
\* id the resolver returned for the lookup of this request's session shop.
C2_JobCredentialSubject ==
    \A r \in DOMAIN req :
        req[r].route = "sync.action" =>
            \A i \in 1..Len(req[r].jobCalls) :
                /\ req[r].jobCalls[i].bearer.role = "admin"
                /\ req[r].jobCalls[i].bearer.userId = req[r].resolved.adminId
                /\ req[r].resolved.adminId # NullId
                /\ req[r].resolved.key = req[r].shop.s

C2_Witness ==
    \E r \in DOMAIN req :
        /\ Done(r)
        /\ req[r].route = "sync.action"
        /\ Len(req[r].jobCalls) = 1
        /\ req[r].jobCalls[1].bearer.userId = T2

\* The dispatcher ran for the request: a credential was minted for it
Dispatched(r) == Done(r) /\ req[r].route = "sync.action" /\ req[r].jwt # NoToken

OneJobCall(r, fn, body) ==
    /\ Len(req[r].jobCalls) = 1
    /\ req[r].jobCalls[1].fn = fn
    /\ req[r].jobCalls[1].body = body
    /\ req[r].upserts = <<>>

RelayIntentsOneCall(r) ==
    /\ req[r].body.intent.s = I_PULL =>
          OneJobCall(r, "shopify-pull-products", JobBody({}, "", FALSE))
    /\ req[r].body.intent.s = I_PUSH_CHANGED =>
          OneJobCall(r, "shopify-push-products", JobBody({"mode"}, "changed", FALSE))
    /\ req[r].body.intent.s = I_PUSH_ALL =>
          OneJobCall(r, "shopify-push-products", JobBody({"mode", "force"}, "all", TRUE))

\* C3 as claimed: per dispatched request, pull / push_changed / push_all
\* make exactly one job call with their body and no settings write, and
\* toggle_auto makes no job call and exactly one settings upsert.
C3_OneEffectPerIntent ==
    \A r \in DOMAIN req :
        Dispatched(r) =>
            /\ RelayIntentsOneCall(r)
            /\ req[r].body.intent.s = I_TOGGLE_AUTO =>
                  /\ req[r].jobCalls = <<>>
                  /\ Len(req[r].upserts) = 1

\* intervalMinutes is absent, null, or a whole number in [1, 1440]
IntervalAcceptable(v) ==
    \/ v.t \in {"undefined", "null"}
    \/ v.t = "number" /\ v.f = 0 /\ v.n >= 1 /\ v.n <= 1440

\* C3 amended: as C3, but toggle_auto makes exactly one settings upsert
\* when intervalMinutes is absent or valid, and none when it is invalid.
C3_OneEffectPerIntentValidInterval ==
    \A r \in DOMAIN req :
        Dispatched(r) =>
            /\ RelayIntentsOneCall(r)
            /\ Len(req[r].jobCalls) <= 1
            /\ req[r].body.intent.s = I_TOGGLE_AUTO =>
                  /\ req[r].jobCalls = <<>>
                  /\ Len(req[r].upserts) =
                        (IF IntervalAcceptable(req[r].body.intervalMinutes) THEN 1 ELSE 0)

C3_Witness ==
    \E r \in DOMAIN req :
        /\ Dispatched(r)
        /\ req[r].body.intent.s = I_PUSH_ALL
        /\ Len(req[r].jobCalls) = 1
        /\ req[r].jobCalls[1].body.force

TenantRows(id) == {x \in shopify_settings : x.admin_id = id}

RowHolds(x, enabled, interval) ==
    x.auto_sync_enabled = enabled /\ x.auto_sync_interval_minutes = interval

\* C4: the store holds one settings row per tenant that was toggled, equal
\* to the payload of the last toggle applied; a toggle answered ok reports
\* that payload; and a status read that follows returns it (so enabled =
\* true, interval = 30 after toggling { enabled: true, intervalMinutes: 30 }).
C4_ToggleRoundTrip ==
    /\ \A x \in shopify_settings : Cardinality(TenantRows(x.admin_id)) = 1
    /\ \A h \in lastToggle :
          \E x \in TenantRows(h.admin_id) : RowHolds(x, h.enabled, h.interval)
    /\ \A r \in DOMAIN req :
          (Done(r) /\ req[r].route = "sync.action" /\ Response(r).body.ok) =>
              \E h \in lastToggle :
                  /\ h.admin_id = req[r].resolved.adminId
                  /\ h.enabled = Boolean(req[r].body.enabled)
                  /\ h.enabled = Response(r).body.auto_sync_enabled
                  /\ h.interval = Response(r).body.auto_sync_interval_minutes
                  /\ req[r].body.intervalMinutes.t = "number" =>
                        h.interval = req[r].body.intervalMinutes.n
    /\ \A r \in DOMAIN req :
          (/\ Done(r)
           /\ req[r].route = "sync.loader"
           /\ req[r].settingsRead.kind = "ok") =>
              \A h \in lastToggle :
                  h.admin_id = req[r].resolved.adminId =>
                      /\ Cardinality(Response(r).body.settings) = 1
                      /\ \A x \in Response(r).body.settings :
                            RowHolds(x, h.enabled, h.interval)

C4_Witness ==
    \E r \in DOMAIN req :
        /\ Done(r)
        /\ req[r].route = "sync.loader"
        /\ req[r].resolved.adminId = T1
        /\ [admin_id |-> T1, enabled |-> TRUE, interval |-> 30] \in lastToggle
        /\ \E x \in Response(r).body.settings : RowHolds(x, TRUE, 30)
        /\ now > 0

\* C5: with toggle_auto requests for one tenant in flight at once, each
\* request issues at most one write, the tenant has one row, and the row is
\* the full (enabled, interval) payload of one of the requests, namely of
\* the write applied last; a row mixing two payloads is unreachable.
C5_ConcurrentTogglesLastWriteWins ==
    /\ \A r \in DOMAIN req : Len(req[r].upserts) <= 1
    /\ \A x \in shopify_settings :
          /\ Cardinality(TenantRows(x.admin_id)) = 1
          /\ \E r \in DOMAIN req :
                /\ req[r].upserts # <<>>
                /\ req[r].upserts[1].admin_id = x.admin_id
                /\ RowHolds(x, Boolean(req[r].body.enabled),
                            IF req[r].body.intervalMinutes.t = "number"
                            THEN req[r].body.intervalMinutes.n ELSE 15)
          /\ \E h \in lastToggle :
                h.admin_id = x.admin_id /\ RowHolds(x, h.enabled, h.interval)

C5_Witness ==
    \E r1, r2 \in DOMAIN req :
        /\ Done(r1) /\ Done(r2)
        /\ Response(r1).body.ok /\ Response(r2).body.ok
        /\ Boolean(req[r1].body.enabled) /\ ~Boolean(req[r2].body.enabled)
        /\ req[r1].resolved.adminId = req[r2].resolved.adminId
        /\ \E x \in shopify_settings : RowHolds(x, TRUE, 30)

Loaders == {"sync.loader", "index.loader"}

\* The lookup ran, the store answered it, and it holds no binding for the
\* key asked (no row, or a row without a tenant id)
LookupFoundNoBinding(r) ==
    /\ req[r].lookup.kind = "ok"
    /\ \A x \in shopify_shops :
          x.shop_domain = req[r].resolved.key => x.admin_id = <<>>

\* C6: when the tenant lookup succeeds and finds no binding, the sync loader
\* and the index loader answer connected = false with a reason field and
\* without an error or errorType field, and the status is never 5xx.
C6_NotLinkedIsNotAnError ==
    \A r \in DOMAIN req :
        (Done(r) /\ req[r].route \in Loaders /\ LookupFoundNoBinding(r)) =>
            /\ "connected" \in Response(r).body.keys
            /\ ~Response(r).body.connected
            /\ "reason" \in Response(r).body.keys
            /\ "error" \notin Response(r).body.keys
            /\ "errorType" \notin Response(r).body.keys
            /\ Response(r).status < 500

C6_Witness ==
    \E r1 \in DOMAIN req :
        /\ Done(r1)
        /\ req[r1].route = "index.loader"
        /\ LookupFoundNoBinding(r1)
        /\ req[r1].resolved.key = Shop(<<"s", "9">>)
        /\ "reason" \in Response(r1).body.keys

\* C7: when the binding is found and the settings read that follows fails at
\* the store, the loaders answer with a success status, connected = true,
\* the tenant id, settings = null and an error field carrying the store's
\* message.
C7_SettingsFailureReported ==
    \A r \in DOMAIN req :
        (/\ Done(r)
         /\ req[r].route \in Loaders
         /\ req[r].settingsRead.kind = "error") =>
            /\ Response(r).status = 200
            /\ Response(r).body.connected
            /\ "adminId" \in Response(r).body.keys
            /\ Response(r).body.adminId = req[r].resolved.adminId
            /\ "settings" \in Response(r).body.keys
            /\ Response(r).body.settings = {}
            /\ "error" \in Response(r).body.keys
            /\ Response(r).body.error = Msg("", req[r].settingsRead.err.message)

\* A verifier accepts a credential strictly before its expiry
VerifierAccepts(token, at) == at < token.exp

\* C8: a credential minted at clock time T has issued-at T and expiry
\* T + 300 s, whatever the tenant and the intent: a verifier accepts it at
\* T + 299 and rejects it at T + 301.
C8_TokenLifetime ==
    \A r \in DOMAIN req :
        req[r].jwt # NoToken =>
            /\ req[r].jwt.iat = req[r].mintedAt
            /\ req[r].jwt.exp = req[r].mintedAt + 300
            /\ VerifierAccepts(req[r].jwt, req[r].mintedAt + 299)
            /\ ~VerifierAccepts(req[r].jwt, req[r].mintedAt + 301)

C8_Witness ==
    \E r2 \in DOMAIN req :
        /\ req[r2].route = "sync.action"
        /\ req[r2].jwt # NoToken
        /\ req[r2].mintedAt = 1
        /\ req[r2].jwt.userId = T2
        /\ req[r2].intent = I_PUSH_CHANGED

\* The tenant-id format: 1..255 characters, letters, digits, dash, underscore
WellFormedTenantId(id) ==
    /\ Len(id) >= 1
    /\ Len(id) <= 255
    /\ \A i \in 1..Len(id) : IsAlnum(id[i]) \/ id[i] \in {"-", "_"}

\* The store answered the lookup with a row whose tenant id is malformed
MalformedStored(r) ==
    /\ req[r].lookup.kind = "ok"
    /\ \E x \in shopify_shops :
          /\ x.shop_domain = req[r].resolved.key
          /\ x.admin_id # <<>>
          /\ ~WellFormedTenantId(x.admin_id)

\* C9: every non-null tenant id the resolver returns is well-formed; and
\* when the store returns a malformed tenant id the resolver returns null
\* with an error, no credential is minted, no job is called and no settings
\* row is written for the request.
C9_MalformedTenantIdStops ==
    \A r \in DOMAIN req :
        req[r].route = "sync.action" =>
            /\ req[r].resolved.adminId # NullId =>
                  WellFormedTenantId(req[r].resolved.adminId)
            /\ MalformedStored(r) =>
                  /\ req[r].resolved.adminId = NullId
                  /\ req[r].resolved.error.present
                  /\ req[r].mintCalls = 0
                  /\ req[r].jobCalls = <<>>
                  /\ req[r].upserts = <<>>

ErrorCategories ==
    {"schema_not_exposed", "permission_denied", "table_not_found", "network_error",
     "unknown"}

\* The store failed the lookup with a message saying a relation does not
\* exist, without the schema error code
RelationMissing(r) ==
    /\ req[r].lookup.kind = "error"
    /\ req[r].lookup.err.code # "PGRST116"
    /\ includes(req[r].lookup.err.message, <<"r", "e", "l", "a", "t", "i", "o", "n">>)
    /\ includes(req[r].lookup.err.message, <<"d", "o", "e", "s", " ", "n", "o", "t", " ", "e", "x", "i", "s", "t">>)

\* C10: a store error is classified as one of the five categories; an error
\* whose message says a relation does not exist (without the schema error
\* code) is classified table_not_found; and an error matching no known
\* pattern is classified unknown.
C10_ClassificationCategories ==
    \A r \in DOMAIN req :
        (req[r].route \in {"sync.action", "sync.loader"} /\ req[r].lookup.kind = "error") =>
            /\ req[r].resolved.error.type \in ErrorCategories
            /\ RelationMissing(r) => req[r].resolved.error.type = "table_not_found"
            /\ req[r].lookup.err = ERR_INTERNAL => req[r].resolved.error.type = "unknown"

\* The routes that call getAdminIdForShop of routes/api.sync
ResolverRoutes == {"sync.action", "sync.loader"}

\* getAdminIdForShop has returned its result to the handler
ResolverReturned(r) ==
    /\ req[r].route \in ResolverRoutes
    /\ req[r].pc \notin {"idle", "resolve"}
    /\ ~ConfigMissing(req[r].shop)

\* C11: when the shop identity fails shape validation, the resolver returns
\* a null tenant id together with an error, and has made no store lookup.
C11_ShapeFailureIsAnError ==
    \A r \in DOMAIN req :
        (ResolverReturned(r) /\ ~validateShopDomain(req[r].shop).ok) =>
            /\ req[r].resolved.adminId = NullId
            /\ req[r].resolved.error.present
            /\ req[r].resolved.lookups = 0
            /\ req[r].lookup.kind = "none"

C11_Witness ==
    \E r \in DOMAIN req :
        /\ ResolverReturned(r)
        /\ req[r].route = "sync.loader"
        /\ req[r].shop = JsString(<<"s", "1", ".", "e", "v", "i", "l", ".", "c", "o", "m">>)
        /\ req[r].resolved.error.present
        /\ req[r].resolved.lookups = 0

\* C12: a resolver result is (a) an error with a null id, (b) no error and
\* a null id, or (c) no error and an id; never an id with an error; and (b)
\* is returned exactly when the shop identity is valid and the lookup
\* succeeded with no row or with an empty tenant id.
C12_ResolverResultShapes ==
    \A r \in DOMAIN req :
        ResolverReturned(r) =>
            /\ ~(req[r].resolved.adminId # NullId /\ req[r].resolved.error.present)
            /\ (req[r].resolved.adminId = NullId /\ ~req[r].resolved.error.present)
                  <=> (/\ validateShopDomain(req[r].shop).ok
                       /\ req[r].resolved.lookups = 1
                       /\ LookupFoundNoBinding(r))

C12_Witness ==
    \E r \in DOMAIN req :
        /\ ResolverReturned(r)
        /\ req[r].route = "sync.action"
        /\ req[r].shop = JsString(Shop(<<"s", "5">>))
        /\ req[r].resolved.adminId = NullId
        /\ ~req[r].resolved.error.present
        /\ Response(r).status = 409

----------------------------------------------------------------------------
(* The validators on their own                                             *)

ValidatorReturned(fn) == validation.fn = fn /\ validation.returned

\* A shop domain as the contract describes it: the trimmed, lower-cased text
\* is at most 255 characters and is a label of one or more letters, digits
\* and hyphens, with no hyphen at either end, followed by ".myshopify.com".
ShopDomainAcceptable(v) ==
    /\ v.t = "string"
    /\ LET s == toLowerCase(trim(v.s))
           n == Len(s) - Len(MYSHOPIFY_SUFFIX)
       IN  /\ Len(s) <= 255
           /\ n >= 1
           /\ SubSeq(s, n + 1, Len(s)) = MYSHOPIFY_SUFFIX
           /\ \A i \in 1..n : IsAlnum(s[i]) \/ s[i] = "-"
           /\ s[1] # "-"
           /\ s[n] # "-"

\* C13: validateShopDomain accepts an input exactly when it is a string whose
\* trimmed form is non-empty, at most 255 characters, and is a label of one
\* or more letters, digits and hyphens (no hyphen first or last) followed by
\* ".myshopify.com"; on acceptance it returns the trimmed, lower-cased value,
\* and every other input fails.
C13_ShopDomainAcceptedExactly ==
    ValidatorReturned("validateShopDomain") =>
        /\ validation.output.ok <=> ShopDomainAcceptable(validation.input)
        /\ validation.output.ok =>
               validation.output.v = toLowerCase(trim(validation.input.s))

\* C14: validateIntervalMinutes returns the default for undefined and null,
\* returns v unchanged for every integer v from 1 to 1440, and fails for
\* every other input: 0, 1441, negative integers, numbers with a fraction,
\* and values that are not numbers.
C14_IntervalValidation ==
    ValidatorReturned("validateIntervalMinutes") =>
        LET v == validation.input
            out == validation.output
        IN  IF v.t \in {"undefined", "null"}
            THEN out.ok /\ out.v = validation.defaultValue
            ELSE IF v.t = "number" /\ v.f = 0 /\ v.n >= 1 /\ v.n <= 1440
            THEN out.ok /\ out.v = v.n
            ELSE ~out.ok

\* The largest interval was validated and came back unchanged.
C14_Witness ==
    /\ ValidatorReturned("validateIntervalMinutes")
    /\ validation.input = JsNumber(1440, 0)
    /\ validation.output.ok
    /\ validation.output.v = 1440

\* A tenant id as the contract describes it: a string of 1 to 255 letters,
\* digits, dashes and underscores, with nothing else anywhere in it.
AdminIdAcceptable(v) ==
    /\ v.t = "string"
    /\ Len(v.s) >= 1
    /\ Len(v.s) <= 255
    /\ \A i \in 1..Len(v.s) : IsAlnum(v.s[i]) \/ v.s[i] \in {"-", "_"}

\* C15: validateAdminId accepts an input exactly when it is a string of
\* length 1 to 255 made only of letters, digits, dash and underscore, and then
\* returns it unchanged; every other input fails, also one with whitespace at
\* its start or end.
C15_AdminIdAcceptedExactly ==
    ValidatorReturned("validateAdminId") =>
        /\ validation.output.ok <=> AdminIdAcceptable(validation.input)
        /\ validation.output.ok => validation.output.v = validation.input.s

----------------------------------------------------------------------------
(* The failure responses of loader and action                              *)

\* A response the handler built itself (not a relayed job response) with a
\* 4xx or 5xx status
FailureResponse(r) ==
    /\ Done(r)
    /\ req[r].route \in ResolverRoutes
    /\ Response(r).status >= 400
    /\ Response(r).body.kind = "object"

\* C16: every failure response of the sync endpoints (resolver error, shop
\* not linked on POST, malformed JSON body, invalid intent, invalid interval,
\* settings upsert failure, missing configuration, unexpected exception) is a
\* JSON object that carries an errorType field.
C16_FailureCarriesErrorType ==
    \A r \in DOMAIN req :
        FailureResponse(r) => "errorType" \in Response(r).body.keys

\* The tenant lookup failed inside the store or by a thrown exception, and
\* the resolver classified the failure as unknown
UnknownFailure(r) ==
    /\ ResolverReturned(r)
    /\ req[r].lookup.kind \in {"error", "throw"}
    /\ req[r].resolved.error.present
    /\ req[r].resolved.error.type = "unknown"

\* C17: when NODE_ENV is production, no response of the sync loader or action
\* carries a stack trace, and after a failure classified unknown the response
\* does not carry the store's own error text or the thrown exception's
\* message.
C17_ProductionHidesInternalText ==
    \A r \in DOMAIN req :
        (Done(r) /\ req[r].route \in ResolverRoutes /\ env.NODE_ENV = "production") =>
            /\ "stack" \notin Response(r).body.keys
            /\ Response(r).body.errorDetails.kind # "stack"
            /\ UnknownFailure(r) =>
                   Response(r).body.error.arg # req[r].lookup.err.message

\* The response names an error: a 4xx/5xx status, an error field, and
\* ok = false on the action
ErrorResponse(r) ==
    /\ Response(r).status >= 400
    /\ Response(r).status <= 599
    /\ Response(r).body.kind = "object"
    /\ "error" \in Response(r).body.keys
    /\ req[r].route = "sync.action" =>
           "ok" \in Response(r).body.keys /\ ~Response(r).body.ok

\* A dependency failed in a way the handler itself has to report: the store
\* was not configured, the tenant lookup failed or threw, the settings read
\* threw, the upsert failed or threw, the minter threw, or the job call threw
ReportedFailure(r) ==
    \/ ConfigMissing(req[r].shop)
    \/ req[r].lookup.kind \in {"error", "throw"}
    \/ req[r].settingsRead.kind = "throw"
    \/ req[r].upsertOutcome.kind \in {"error", "throw", "lost"}
    \/ req[r].mintCalls = 1 /\ req[r].jwt = NoToken
    \/ req[r].jobAnswer.kind = "throw"

\* The job answered the call with a 4xx/5xx response
JobRefused(r) ==
    req[r].jobAnswer.kind \notin {"none", "throw"} /\ req[r].jobAnswer.status >= 400

\* C18 (as stated): loader and action answer every failure of the tenant
\* lookup, the settings read or upsert, the minter or the job call, reported
\* as an error value or thrown, with an error field (ok = false on the
\* action) and a 4xx/5xx status, except a settings read that reports an error.
C18_EveryFailureIsAnErrorResponse ==
    \A r \in DOMAIN req :
        (Done(r) /\ req[r].route \in ResolverRoutes
            /\ (ReportedFailure(r) \/ JobRefused(r))) => ErrorResponse(r)

\* C18: loader and action end every request with a JSON response; every
\* failure of the tenant lookup, the settings read or upsert or the minter,
\* and every thrown job call, is answered with an error field (ok = false on
\* the action) and a 4xx/5xx status, except a settings read that reports an
\* error; a job call answered with a 4xx/5xx response gets no error body of
\* the handler: the response has the job's status and the data parsed from
\* the job's response.
C18_FailuresAnswered ==
    \A r \in DOMAIN req :
        (Done(r) /\ req[r].route \in ResolverRoutes) =>
            /\ Response(r).status >= 200
            /\ Response(r).status <= 599
            /\ ReportedFailure(r) => ErrorResponse(r)
            /\ JobRefused(r) =>
                   /\ Response(r).status = req[r].jobAnswer.status
                   /\ Response(r).body.kind = "relay"

\* The store threw while the toggle was being written, and the action
\* answered 500 with ok = false and an error
C18_Witness ==
    \E r \in DOMAIN req :
        /\ Done(r)
        /\ req[r].route = "sync.action"
        /\ req[r].upsertOutcome.kind = "throw"
        /\ ErrorResponse(r)
        /\ Response(r).status = 500

\* The job answered the call with an HTTP response
JobAnswered(r) ==
    /\ Done(r)
    /\ req[r].route = "sync.action"
    /\ req[r].jobAnswer.kind \in {"json", "text", "empty"}

\* A response body equal to the job's body: the value of a JSON text, the
\* text itself when it is not JSON, nothing when it is empty
Verbatim(kind) ==
    CASE kind = "json"  -> "parsed"
      [] kind = "text"  -> "text"
      [] kind = "empty" -> "empty"

\* C19: for pull, push_changed and push_all the response has the HTTP status
\* of the job's response and a body equal to the job's response body, for
\* every job status and every job body (JSON, non-JSON text, or empty).
C19_JobResponseRelayedVerbatim ==
    \A r \in DOMAIN req :
        JobAnswered(r) =>
            /\ Response(r).status = req[r].jobAnswer.status
            /\ Response(r).body.kind = "relay"
            /\ Response(r).body.data = Verbatim(req[r].jobAnswer.kind)

\* The action reached the minter while APP_JWT_SECRET was not set
MintedWithoutSecret(r) ==
    /\ Done(r)
    /\ req[r].route = "sync.action"
    /\ env.APP_JWT_SECRET = ""
    /\ req[r].mintCalls = 1

\* C20: when the signing secret is absent at request time, minting fails and
\* the POST sync action returns a 500 error response with ok = false; in that
\* request no job call is made and no settings row is written, for every
\* intent.
C20_MissingSecretIsFatal ==
    \A r \in DOMAIN req :
        MintedWithoutSecret(r) =>
            /\ req[r].jwt = NoToken
            /\ Response(r).status = 500
            /\ {"ok", "error"} \subseteq Response(r).body.keys
            /\ ~Response(r).body.ok
            /\ req[r].jobCalls = <<>>
            /\ req[r].upserts = <<>>
            /\ shopify_settings = {}

\* A push_all request reached the minter without a secret and was answered 500
C20_Witness ==
    \E r \in DOMAIN req :
        /\ MintedWithoutSecret(r)
        /\ req[r].intent = I_PUSH_ALL
        /\ Response(r).status = 500
        /\ req[r].jobCalls = <<>>

----------------------------------------------------------------------------
(* Tenant isolation and effects of the write path                          *)

\* The tenant ids the store binds to the session's shop, as validateAdminId
\* returns them
BoundTenants(shop) ==
    {trim(x.admin_id) : x \in {y \in shopify_shops : y.shop_domain = shop.s}}

\* C21: the tenant a POST sync request acts on is determined only by the
\* tenant binding of the session's shop: whatever the request body, the
\* credential minted has that tenant as its subject, every job call carries
\* it, and every settings upsert is keyed by it.
C21_TenantFromBindingOnly ==
    \A r \in DOMAIN req :
        req[r].route = "sync.action" =>
            /\ req[r].jwt # NoToken => {req[r].jwt.userId} = BoundTenants(req[r].shop)
            /\ \A i \in 1..Len(req[r].jobCalls) :
                  {req[r].jobCalls[i].bearer.userId} = BoundTenants(req[r].shop)
            /\ \A i \in 1..Len(req[r].upserts) :
                  {req[r].upserts[i].admin_id} = BoundTenants(req[r].shop)

\* A toggle for shop s2 with enabled = true was written under tenant t2
C21_Witness ==
    \E r \in DOMAIN req :
        /\ Done(r)
        /\ req[r].route = "sync.action"
        /\ req[r].shop = JsString(Shop(<<"s", "2">>))
        /\ Boolean(req[r].body.enabled)
        /\ req[r].jwt.userId = T2
        /\ Len(req[r].upserts) = 1
        /\ req[r].upserts[1].admin_id = T2

\* Request r writes a toggle for its resolved tenant in this step
ToggleWritten(r, id) ==
    /\ req[r].pc = "dispatch"
    /\ req[r].intent = I_TOGGLE_AUTO
    /\ req[r].resolved.adminId = id
    /\ Len(req'[r].upserts) = Len(req[r].upserts) + 1

\* Rows x and y agree in everything a toggle must leave alone
SameTenantData(x, y) ==
    /\ y.admin_id = x.admin_id
    /\ y.last_pull_at = x.last_pull_at
    /\ y.last_push_at = x.last_push_at
    /\ y.created_at = x.created_at

\* C22: a toggle_auto request changes at most the settings row of the
\* resolved tenant, and in it only the enabled flag, the interval and
\* updated_at; last_pull_at, last_push_at and created_at of an existing row,
\* every other tenant's row and all tenant bindings are left unchanged, and
\* no other step of a request changes a row at all.
C22_ToggleTouchesOnlyItsRow ==
    [][/\ shopify_shops' = shopify_shops
       /\ \A x \in shopify_settings :
             \E y \in shopify_settings' :
                 /\ SameTenantData(x, y)
                 /\ y # x => \E r \in DOMAIN req : ToggleWritten(r, x.admin_id)
       /\ \A y \in shopify_settings' :
             \/ \E x \in shopify_settings : x.admin_id = y.admin_id
             \/ \E r \in DOMAIN req : ToggleWritten(r, y.admin_id)]_vars

\* Tenant t1's stored row was toggled after the clock moved: the flag, the
\* interval and updated_at changed, the rest of the row is as it was stored
C22_Witness ==
    /\ \E r \in DOMAIN req :
          /\ Done(r)
          /\ req[r].route = "sync.action"
          /\ req[r].resolved.adminId = T1
          /\ Response(r).body.ok
    /\ \E y \in shopify_settings :
          /\ y.admin_id = T1
          /\ RowHolds(y, TRUE, 30)
          /\ y.updated_at = 1
          /\ y.created_at = 0
          /\ y.last_pull_at = 0
          /\ y.last_push_at = 0
    /\ SettingsRow(T2, TRUE, 15, 0, 0) \in shopify_settings

\* C23: on the write path input validation precedes tenant resolution: a
\* POST sync request whose body is not valid JSON or whose intent is outside
\* the closed set is rejected with 400 before any tenant lookup is issued.
C23_ValidationBeforeLookup ==
    \A r \in DOMAIN req :
        (/\ Done(r)
         /\ req[r].route = "sync.action"
         /\ req[r].body.kind = "invalid" \/ InvalidIntent(req[r].body)) =>
            /\ Response(r).status = 400
            /\ req[r].resolved.lookups = 0
            /\ req[r].lookup.kind = "none"

----------------------------------------------------------------------------
(* Process start                                                           *)

\* C24: whenever APP_JWT_SECRET is shorter than 32 characters, environment
\* validation at module load fails and the process does not go on to serve
\* requests, so no credential is ever signed with a secret shorter than 32
\* characters.
C24_ShortSecretNeverServes ==
    /\ (validation.returned /\ SecretLength(env.APP_JWT_SECRET) < 32) =>
           ~validation.output.ok
    /\ \A r \in DOMAIN req :
           req[r].jwt # NoToken => SecretLength(req[r].jwt.key) >= 32

----------------------------------------------------------------------------
(* Compliance webhooks                                                     *)

WebhookDone(r) == Done(r) /\ req[r].route \notin {"", "sync.action", "sync.loader", "index.loader", "legacy.action"}

\* C25: each of the three compliance webhook handlers returns HTTP 200 with
\* an empty JSON object for every invocation: when webhook authentication
\* throws, when the payload lacks the expected fields, and (shop redact)
\* when the session deletion throws.
C25_WebhooksAlwaysAnswerOk ==
    \A r \in DOMAIN req :
        WebhookDone(r) =>
            /\ Response(r).status = 200
            /\ Response(r).body.kind = "object"
            /\ Response(r).body.keys = {}

\* A shop redact whose session deletion threw was answered 200 and the
\* session is still stored
C25_Witness ==
    \E r \in DOMAIN req :
        /\ WebhookDone(r)
        /\ req[r].route = "webhooks.shop.redact"
        /\ req[r].body.deleteMany = "throw"
        /\ req[r].body.shop_domain = JsString(Shop(<<"s", "1">>))
        /\ Shop(<<"s", "1">>) \in sessions
        /\ Response(r).status = 200

----------------------------------------------------------------------------
(* The intent dispatcher                                                   *)

SyncAction(r) == req[r].route = "sync.action"

\* validateIntent(body.intent) has returned in the request
IntentReturned(r) ==
    /\ SyncAction(r)
    /\ req[r].body.kind = "object"
    /\ validateIntent(req[r].body.intent).ok

\* The request went through one of the four intent branches
BranchTaken(r) ==
    /\ Done(r)
    /\ req[r].jwt # NoToken
    /\ \/ /\ req[r].intent \in {I_PULL, I_PUSH_CHANGED, I_PUSH_ALL}
          /\ Len(req[r].jobCalls) = 1
          /\ req[r].jobCalls[1].fn = JobFor(req[r].intent).fn
          /\ req[r].upserts = <<>>
       \/ /\ req[r].intent = I_TOGGLE_AUTO
          /\ req[r].jobCalls = <<>>
          /\ Len(req[r].upserts) <= 1

\* C26: in the POST sync action the "Unknown intent" 400 response is never
\* produced; the intent the dispatcher sees is the request's intent
\* unchanged and one of pull, push_changed, push_all, toggle_auto, and a
\* request whose admin id was validated and whose credential was minted
\* goes through exactly one of the four branches.
C26_UnknownIntentUnreachable ==
    \A r \in DOMAIN req :
        SyncAction(r) =>
            /\ ~(Done(r) /\ Response(r).body.error = Msg("Unknown intent", <<>>))
            /\ req[r].pc \in {"mint", "dispatch"} \/ (Done(r) /\ req[r].jwt # NoToken) =>
                   /\ IntentReturned(r)
                   /\ req[r].intent \in VALID_INTENTS
                   /\ req[r].intent = req[r].body.intent.s
            /\ Done(r) /\ req[r].jwt # NoToken => BranchTaken(r)

\* C26 as stated: once validateIntent has returned, one of the four
\* branches is taken
C26_BranchAfterValidateIntent ==
    \A r \in DOMAIN req :
        IntentReturned(r) /\ Done(r) => BranchTaken(r)

\* A toggle_auto request that went through its branch and was refused there
C26_Witness ==
    \E r \in DOMAIN req :
        /\ IntentReturned(r)
        /\ BranchTaken(r)
        /\ req[r].intent = I_TOGGLE_AUTO
        /\ Response(r).status = 400

----------------------------------------------------------------------------
(* The key of the tenant lookup                                            *)

\* C27: the key the resolver sends to the store lookup is the value
\* returned by validateShopDomain (trimmed, lower-cased): for every accepted
\* shop, mixed-case and padded ones included, the lookup key equals the
\* normalized value.
C27_LookupKeyIsNormalized ==
    \A r \in DOMAIN req :
        req[r].resolved.lookups > 0 =>
            /\ validateShopDomain(req[r].shop).ok
            /\ req[r].resolved.key = validateShopDomain(req[r].shop).v

----------------------------------------------------------------------------
(* Shops that are not linked                                               *)

\* The shop of the request is a valid shop identity that no row of
\* shopify_shops binds to a tenant, and the store answered the lookup
Unlinked(r) ==
    /\ SyncAction(r)
    /\ validateShopDomain(req[r].shop).ok
    /\ \A x \in shopify_shops :
           x.shop_domain = validateShopDomain(req[r].shop).v => x.admin_id = <<>>
    /\ req[r].lookup.kind = "ok"

\* C28: a POST sync request for a shop with no tenant binding is answered
\* 409 with ok = false whatever its body; the step that answers it mints
\* no credential, makes no job call and no settings write, reads no body,
\* and leaves shopify_shops and shopify_settings as they were.
C28_UnlinkedShopRefused ==
    [][\A r \in DOMAIN req :
          req[r].pc = "resolve" /\ Unlinked(r)' =>
              /\ Done(r)'
              /\ Response(r)'.status = 409
              /\ Response(r)'.body.ok = FALSE
              /\ "ok" \in Response(r)'.body.keys
              /\ req'[r].body.kind = "unread"
              /\ req'[r].mintCalls = 0
              /\ req'[r].jwt = NoToken
              /\ req'[r].jobCalls = <<>>
              /\ req'[r].upserts = <<>>
              /\ shopify_shops' = shopify_shops
              /\ shopify_settings' = shopify_settings]_vars

\* A shop without a row in shopify_shops was refused
C28_Witness ==
    \E r \in DOMAIN req :
        /\ Done(r)
        /\ Unlinked(r)
        /\ req[r].shop = JsString(Shop(<<"s", "9">>))
        /\ Response(r).status = 409

----------------------------------------------------------------------------
(* toggle_auto with an invalid interval                                    *)

\* A value that is present and is not a number, not an integer, below 1 or
\* above 1440
InvalidInterval(x) ==
    /\ x.t \notin {"undefined", "null"}
    /\ \/ x.t # "number"
       \/ x.f # 0
       \/ x.n < MIN_INTERVAL
       \/ x.n > MAX_INTERVAL

\* The request is a toggle_auto whose intervalMinutes is present but invalid
InvalidIntervalToggle(r) ==
    /\ SyncAction(r)
    /\ req[r].body.kind = "object"
    /\ req[r].body.intent = JsString(I_TOGGLE_AUTO)
    /\ InvalidInterval(req[r].body.intervalMinutes)

\* C29: a toggle_auto request whose intervalMinutes is present but invalid
\* (not a number, not an integer, below 1, above 1440) is answered 400 with
\* ok = false by the toggle branch, and no step of the request issues a
\* settings upsert: the settings rows are the same before and after.
C29_InvalidIntervalWritesNothing ==
    [][\A r \in DOMAIN req :
          InvalidIntervalToggle(r)' /\ req'[r] # req[r] =>
              /\ req'[r].upserts = <<>>
              /\ shopify_settings' = shopify_settings
              /\ lastToggle' = lastToggle
              /\ req[r].pc = "dispatch" =>
                     /\ Done(r)'
                     /\ Response(r)'.status = 400
                     /\ Response(r)'.body.ok = FALSE
                     /\ "ok" \in Response(r)'.body.keys]_vars

\* A toggle_auto with intervalMinutes 1441 for a tenant that has a settings
\* row was answered 400 by the toggle branch and the row is still there
C29_Witness ==
    \E r \in DOMAIN req :
        /\ Done(r)
        /\ InvalidIntervalToggle(r)
        /\ req[r].body.intervalMinutes = JsNumber(1441, 0)
        /\ req[r].jwt # NoToken
        /\ req[r].validatedAdminId = T1
        /\ Response(r).status = 400
        /\ \E x \in shopify_settings : x.admin_id = T1 /\ x.auto_sync_interval_minutes = 60

----------------------------------------------------------------------------
(* The read path                                                           *)

StatusRead(r) == req[r].route \in {"sync.loader", "index.loader"}

\* C30: a GET status request has no effects: whatever its outcome (resolver
\* error, not linked, connected with or without a settings row, settings
\* read failure), each of its steps mints no credential, makes no job call
\* and no write, and leaves the tenant bindings, the settings rows and the
\* stored sessions as they were.
C30_StatusReadHasNoEffects ==
    [][\A r \in DOMAIN req :
          StatusRead(r)' /\ req'[r] # req[r] =>
              /\ req'[r].mintCalls = 0
              /\ req'[r].jwt = NoToken
              /\ req'[r].jobCalls = <<>>
              /\ req'[r].upserts = <<>>
              /\ shopify_shops' = shopify_shops
              /\ shopify_settings' = shopify_settings
              /\ lastToggle' = lastToggle
              /\ sessions' = sessions]_vars

\* A status read for tenant t2, which has no settings row yet, answered
\* connected with empty settings
C30_Witness ==
    \E r \in DOMAIN req :
        /\ Done(r)
        /\ req[r].route = "sync.loader"
        /\ req[r].settingsRead.kind = "ok"
        /\ Response(r).body.connected = TRUE
        /\ Response(r).body.adminId = T2
        /\ Response(r).body.settings = {}
        /\ shopify_settings = {}

====
